---- MODULE Spec2Model ----
(***************************************************************************)
(* A model of rust-http-server: the request framer (parse_request), the    *)
(* connection handler and router (handle_connection, handle_get, ...), the *)
(* JSON-file entry store (endpoints.rs) and the worker pool that runs one  *)
(* handle_connection per accepted connection (main).                       *)
(*                                                                         *)
(* Bytes.  A byte sequence is a sequence of symbols.  The framing bytes    *)
(* (space, colon, CR, LF, the JSON punctuation, decimal digits) are one    *)
(* symbol each.  A word symbol ("GET", "/hello", "Content-Length", a JSON  *)
(* string literal) stands for a run of bytes that holds no framing byte    *)
(* and that the program only ever compares as a whole.  Lengths            *)
(* (Content-Length, buffer sizes) are counted in symbols.                  *)
(***************************************************************************)
EXTENDS Integers, Sequences, FiniteSets, TLC

----------------------------------------------------------------------------
(* Symbols *)

SP == " "
CR == "\r"
LF == "\n"
COLON == ":"
\* a byte that is not valid UTF-8 (such as 0xFF)
BAD == "\\xFF"
\* the three bytes of U+FFFD, which from_utf8_lossy writes for each BAD
REPL == <<"\\xEF", "\\xBF", "\\xBD">>
CRLF == <<CR, LF>>
\* char::is_whitespace, restricted to the symbols of the model
Whitespace == {SP, CR, LF}
Digit == {"0", "1", "2", "3", "4", "5", "6", "7", "8", "9"}
DigitVal == [d \in Digit |->
    CASE d = "0" -> 0 [] d = "1" -> 1 [] d = "2" -> 2 [] d = "3" -> 3
      [] d = "4" -> 4 [] d = "5" -> 5 [] d = "6" -> 6 [] d = "7" -> 7
      [] d = "8" -> 8 [] d = "9" -> 9]
DigitSym == <<"0", "1", "2", "3", "4", "5", "6", "7", "8", "9">>

----------------------------------------------------------------------------
(* String helpers of the standard library, as parse_request uses them *)

Min(a, b) == IF a <= b THEN a ELSE b

Drop(s, n) == SubSeq(s, n + 1, Len(s))

Take(s, n) == SubSeq(s, 1, n)

\* index of the first x in s, 0 when there is none (memchr in read_until)
IndexOf(s, x) ==
    IF \E i \in 1..Len(s) : s[i] = x
    THEN CHOOSE i \in 1..Len(s) : s[i] = x /\ \A j \in 1..(i - 1) : s[j] # x
    ELSE 0

\* str::split_whitespace: the maximal runs of non-whitespace symbols
RECURSIVE SplitWhitespaceFrom(_, _, _, _)
SplitWhitespaceFrom(s, i, cur, acc) ==
    IF i > Len(s) THEN (IF cur = <<>> THEN acc ELSE Append(acc, cur))
    ELSE IF s[i] \in Whitespace
         THEN SplitWhitespaceFrom(s, i + 1, <<>>,
                                  IF cur = <<>> THEN acc ELSE Append(acc, cur))
         ELSE SplitWhitespaceFrom(s, i + 1, Append(cur, s[i]), acc)

SplitWhitespace(s) == SplitWhitespaceFrom(s, 1, <<>>, <<>>)

\* position of the first ": " in s, 0 when s has none
FindSeparator(s) ==
    IF \E i \in 1..(Len(s) - 1) : s[i] = COLON /\ s[i + 1] = SP
    THEN CHOOSE i \in 1..(Len(s) - 1) :
            /\ s[i] = COLON /\ s[i + 1] = SP
            /\ \A j \in 1..(i - 1) : ~(s[j] = COLON /\ s[j + 1] = SP)
    ELSE 0

\* str::splitn(2, ": "): one part when there is no separator, else two
SplitN2(s) ==
    LET i == FindSeparator(s)
    IN  IF i = 0 THEN <<s>> ELSE <<Take(s, i - 1), Drop(s, i + 1)>>

\* str::trim
RECURSIVE TrimStart(_)
TrimStart(s) ==
    IF s # <<>> /\ Head(s) \in Whitespace THEN TrimStart(Tail(s)) ELSE s

RECURSIVE TrimEnd(_)
TrimEnd(s) ==
    IF s # <<>> /\ s[Len(s)] \in Whitespace THEN TrimEnd(Take(s, Len(s) - 1)) ELSE s

Trim(s) == TrimEnd(TrimStart(s))

\* value of a run of decimal digits
RECURSIVE DigitsValue(_)
DigitsValue(s) ==
    IF s = <<>> THEN 0
    ELSE DigitsValue(Take(s, Len(s) - 1)) * 10 + DigitVal[s[Len(s)]]

\* str::parse::<usize>: an optional '+', then one digit or more; -1 is Err
ParseUsize(s) ==
    LET d == IF s # <<>> /\ Head(s) = "+" THEN Tail(s) ELSE s
    IN  IF d # <<>> /\ \A i \in 1..Len(d) : d[i] \in Digit
        THEN DigitsValue(d) ELSE -1

\* usize to_string (the {length} of format!)
RECURSIVE ToDigits(_)
ToDigits(n) ==
    IF n < 10 THEN <<DigitSym[n + 1]>>
    ELSE Append(ToDigits(n \div 10), DigitSym[(n % 10) + 1])

\* String::from_utf8_lossy: every invalid byte becomes U+FFFD
RECURSIVE Lossy(_)
Lossy(s) ==
    IF s = <<>> THEN <<>>
    ELSE (IF Head(s) = BAD THEN REPL ELSE <<Head(s)>>) \o Lossy(Tail(s))

\* HashMap::insert
Insert(h, k, v) == [j \in DOMAIN h \cup {k} |-> IF j = k THEN v ELSE h[j]]

EmptyMap == [j \in {} |-> <<>>]

----------------------------------------------------------------------------
(* serde_json over symbols.  A JSON string literal is one symbol of JStr, a *)
(* JSON number is a run of digits without a leading zero.                   *)

JStr == {"\"id\"", "\"rank\"", "\"name\"", "\"extra\"",
         "\"A\"", "\"B\"", "\"X\"", "\"r\"", "\"s\""}

RECURSIVE SkipWs(_, _)
SkipWs(s, i) == IF i <= Len(s) /\ s[i] \in Whitespace THEN SkipWs(s, i + 1) ELSE i

RECURSIVE DigitsEnd(_, _)
DigitsEnd(s, i) == IF i <= Len(s) /\ s[i] \in Digit THEN DigitsEnd(s, i + 1) ELSE i

\* index after the number that starts at s[i], 0 for "invalid number"
NumberEnd(s, i) ==
    IF s[i] = "0"
    THEN (IF i + 1 <= Len(s) /\ s[i + 1] \in Digit THEN 0 ELSE i + 1)
    ELSE DigitsEnd(s, i)

\* Deserialize for serde_json::Value / IgnoredAny: the index after the value
\* that starts at s[i], 0 when there is no valid value there.
\* mode: "first" (after the opening bracket), "comma" (after an item),
\* "item" (after a comma).
RECURSIVE SkipValueAt(_, _)
RECURSIVE SkipListAt(_, _, _, _)
RECURSIVE SkipMember(_, _)
RECURSIVE SkipRest(_, _, _)
SkipValueAt(s, i) ==
    IF i > Len(s) THEN 0
    ELSE IF s[i] \in Digit THEN NumberEnd(s, i)
    ELSE IF s[i] \in JStr THEN i + 1
    ELSE IF s[i] = "[" THEN SkipListAt(s, SkipWs(s, i + 1), "first", FALSE)
    ELSE IF s[i] = "{" THEN SkipListAt(s, SkipWs(s, i + 1), "first", TRUE)
    ELSE 0

\* the value of a member whose key is followed by s[k]
SkipMember(s, k) ==
    IF k <= Len(s) /\ s[k] = COLON THEN SkipValueAt(s, SkipWs(s, k + 1)) ELSE 0

\* v is the index after an item, 0 when the item was not valid
SkipRest(s, v, isMap) ==
    IF v = 0 THEN 0 ELSE SkipListAt(s, SkipWs(s, v), "comma", isMap)

SkipListAt(s, i, mode, isMap) ==
    IF i > Len(s) THEN 0
    ELSE IF s[i] = (IF isMap THEN "}" ELSE "]")
    THEN (IF mode = "item" THEN 0 ELSE i + 1)
    ELSE IF mode = "comma"
    THEN (IF s[i] = "," THEN SkipListAt(s, SkipWs(s, i + 1), "item", isMap) ELSE 0)
    ELSE IF isMap
    THEN (IF s[i] \in JStr THEN SkipRest(s, SkipMember(s, SkipWs(s, i + 1)), isMap)
          ELSE 0)
    ELSE SkipRest(s, SkipValueAt(s, i), isMap)

SkipValue(s, i0) == SkipValueAt(s, SkipWs(s, i0))

\* one value, then nothing but whitespace: j is the index after the value
OnlyValue(s, j) == j # 0 /\ SkipWs(s, j) > Len(s)

\* serde_json::from_str::<serde_json::Value>(s).is_ok()
IsJson(s) == OnlyValue(s, SkipValue(s, 1))

JFail == [ok |-> FALSE, val |-> 0, next |-> 0]

\* Deserialize for a field of type usize or String at s[i]
TypedValueAt(s, i, type) ==
    IF i > Len(s) THEN JFail
    ELSE IF type = "usize"
    THEN IF s[i] \in Digit /\ NumberEnd(s, i) # 0
         THEN [ok |-> TRUE,
               val |-> DigitsValue(SubSeq(s, i, NumberEnd(s, i) - 1)),
               next |-> NumberEnd(s, i)]
         ELSE JFail
    ELSE IF s[i] \in JStr THEN [ok |-> TRUE, val |-> s[i], next |-> i + 1]
         ELSE JFail

TypedValue(s, i0, type) == TypedValueAt(s, SkipWs(s, i0), type)

FieldNames(fields) == {fields[k][1] : k \in 1..Len(fields)}

FieldIndex(fields, name) ==
    CHOOSE k \in 1..Len(fields) : fields[k][1] = name

\* derive(Deserialize) visit_map at s[i]: unknown keys are ignored, a
\* repeated or a missing field is an error
RECURSIVE ParseMapAt(_, _, _, _, _)
RECURSIVE MapField(_, _, _, _, _)
RECURSIVE MapIgnored(_, _, _, _)
RECURSIVE MapMember(_, _, _, _, _)
ParseMapAt(s, i, mode, fields, acc) ==
    IF i > Len(s) THEN JFail
    ELSE IF s[i] = "}"
    THEN IF mode # "item" /\ FieldNames(fields) \subseteq DOMAIN acc
         THEN [ok |-> TRUE, val |-> acc, next |-> i + 1]
         ELSE JFail
    ELSE IF mode = "comma"
    THEN IF s[i] = "," THEN ParseMapAt(s, SkipWs(s, i + 1), "item", fields, acc)
         ELSE JFail
    ELSE IF s[i] \notin JStr THEN JFail
    ELSE MapMember(s, s[i], SkipWs(s, i + 1), fields, acc)

\* the member with the key name, which is followed by s[k]
MapMember(s, name, k, fields, acc) ==
    IF k > Len(s) \/ s[k] # COLON THEN JFail
    ELSE IF name \in FieldNames(fields)
    THEN IF name \in DOMAIN acc THEN JFail
         ELSE MapField(s, name, fields, acc,
                       TypedValue(s, k + 1, fields[FieldIndex(fields, name)][2]))
    ELSE MapIgnored(s, fields, acc, SkipValue(s, k + 1))

MapField(s, name, fields, acc, tv) ==
    IF tv.ok
    THEN ParseMapAt(s, SkipWs(s, tv.next), "comma", fields, Insert(acc, name, tv.val))
    ELSE JFail

MapIgnored(s, fields, acc, v) ==
    IF v = 0 THEN JFail ELSE ParseMapAt(s, SkipWs(s, v), "comma", fields, acc)

\* derive(Deserialize) visit_seq at s[i]: the fields in declaration order
RECURSIVE ParseSeqAt(_, _, _, _, _)
RECURSIVE SeqField(_, _, _, _, _)
ParseSeqAt(s, i, k, fields, acc) ==
    IF i > Len(s) THEN JFail
    ELSE IF k > Len(fields)
    THEN IF s[i] = "]" THEN [ok |-> TRUE, val |-> acc, next |-> i + 1] ELSE JFail
    ELSE IF k > 1 /\ s[i] # "," THEN JFail
    ELSE SeqField(s, k, fields, acc,
                  TypedValue(s, IF k > 1 THEN i + 1 ELSE i, fields[k][2]))

SeqField(s, k, fields, acc, tv) ==
    IF tv.ok
    THEN ParseSeqAt(s, SkipWs(s, tv.next), k + 1, fields,
                    Insert(acc, fields[k][1], tv.val))
    ELSE JFail

\* Deserializer::deserialize_struct at s[i]
ParseStructAt(s, i, fields) ==
    IF i > Len(s) THEN JFail
    ELSE IF s[i] = "{" THEN ParseMapAt(s, SkipWs(s, i + 1), "first", fields, EmptyMap)
    ELSE IF s[i] = "[" THEN ParseSeqAt(s, SkipWs(s, i + 1), 1, fields, EmptyMap)
    ELSE JFail

\* Deserializer::end: after the value r, nothing but whitespace
End(s, r) == IF r.ok /\ SkipWs(s, r.next) > Len(s) THEN r ELSE JFail

\* serde_json::from_str::<T> for a struct T with these fields
FromStr(s, fields) == End(s, ParseStructAt(s, SkipWs(s, 1), fields))

----------------------------------------------------------------------------
(* The entry store's records and their JSON form.  rank stands for the     *)
(* fields of Character other than id and name (rank, trend, season,        *)
(* episode, start, total_votes, average_rating), which every operation of *)
(* endpoints.rs copies as a whole.                                         *)

CharacterFields ==
    << <<"\"id\"", "usize">>, <<"\"rank\"", "String">>, <<"\"name\"", "String">> >>

PatchNameFields == << <<"\"id\"", "usize">>, <<"\"name\"", "String">> >>

DeleteFields == << <<"\"id\"", "usize">> >>

Character(m) == [id |-> m["\"id\""], rank |-> m["\"rank\""], name |-> m["\"name\""]]

\* Serialize for Character; pretty is to_writer_pretty (": " and line breaks)
CharacterJson(ch, pretty) ==
    LET sep == IF pretty THEN <<COLON, SP>> ELSE <<COLON>>
        nl == IF pretty THEN <<LF>> ELSE <<>>
    IN  <<"{">> \o nl \o <<"\"id\"">> \o sep \o ToDigits(ch.id) \o <<",">> \o nl
        \o <<"\"rank\"">> \o sep \o <<ch.rank, ",">> \o nl
        \o <<"\"name\"">> \o sep \o <<ch.name>> \o nl \o <<"}">>

RECURSIVE ElementsJson(_, _)
ElementsJson(chars, pretty) ==
    IF chars = <<>> THEN <<>>
    ELSE CharacterJson(Head(chars), pretty)
         \o (IF Len(chars) > 1
             THEN <<",">> \o (IF pretty THEN <<LF>> ELSE <<>>)
                  \o ElementsJson(Tail(chars), pretty)
             ELSE <<>>)

\* Serialize for Vec<Character> ("[]" when empty, also when pretty)
ToJson(chars, pretty) ==
    IF chars = <<>> THEN <<"[", "]">>
    ELSE <<"[">> \o (IF pretty THEN <<LF>> ELSE <<>>) \o ElementsJson(chars, pretty)
         \o (IF pretty THEN <<LF>> ELSE <<>>) \o <<"]">>

\* Deserialize for Vec<Character> at s[i], after the opening bracket
RECURSIVE ParseVecAt(_, _, _, _)
RECURSIVE VecItem(_, _, _)
ParseVecAt(s, i, mode, acc) ==
    IF i > Len(s) THEN JFail
    ELSE IF s[i] = "]"
    THEN IF mode # "item" THEN [ok |-> TRUE, val |-> acc, next |-> i + 1] ELSE JFail
    ELSE IF mode = "comma"
    THEN IF s[i] = "," THEN ParseVecAt(s, SkipWs(s, i + 1), "item", acc) ELSE JFail
    ELSE VecItem(s, acc, ParseStructAt(s, i, CharacterFields))

VecItem(s, acc, e) ==
    IF e.ok THEN ParseVecAt(s, SkipWs(s, e.next), "comma", Append(acc, Character(e.val)))
    ELSE JFail

VecAt(s, i) ==
    IF i <= Len(s) /\ s[i] = "[" THEN ParseVecAt(s, SkipWs(s, i + 1), "first", <<>>)
    ELSE JFail

\* serde_json::from_reader::<_, Vec<Character>>(file)
FromReader(file) == End(file, VecAt(file, SkipWs(file, 1)))

\* to_writer_pretty(&mut writer, &characters), then writer.write_all(b"\n")
FileOf(chars) == ToJson(chars, TRUE) \o <<LF>>

----------------------------------------------------------------------------
(* parse_request.  r is the record of one connection: its BufReader        *)
(* (buf: the bytes read from the socket and not yet consumed, eof: the     *)
(* last read returned 0), the line read_until is collecting (partial) and  *)
(* the locals of parse_request.  phase is the place parse_request is at:    *)
(* "reqline" and "headers" wait in read_line, "body" in read_exact,        *)
(* "parsed" is Ok(..) and "failed" is Err(err).                            *)

IsUtf8(s) == \A i \in 1..Len(s) : s[i] # BAD

ContentLength == <<"Content-Length">>

ContentType == <<"Content-Type">>

Fail(r, e) == [r EXCEPT !.phase = "failed", !.err = e]

\* the gate of lines 154-171 without its last arm: any other type is let in
CheckKnownTypes(r) ==
    IF ContentType \in DOMAIN r.headers
       /\ r.headers[ContentType] = <<"application/json">>
       /\ ~IsJson(r.body)
    THEN Fail(r, "InvalidRequestLineFormat")
    ELSE [r EXCEPT !.phase = "parsed"]

\* lines 154-173: the Content-Type gate, then Ok((method, uri, headers, body))
CheckContentType(r) ==
    IF ContentType \in DOMAIN r.headers
    THEN LET content_type == r.headers[ContentType]
         IN  IF content_type = <<"application/json">>
             THEN IF IsJson(r.body) THEN [r EXCEPT !.phase = "parsed"]
                  ELSE Fail(r, "InvalidRequestLineFormat")
             ELSE IF content_type = <<"text/plain">> THEN [r EXCEPT !.phase = "parsed"]
             ELSE Fail(r, "InvalidRequestLineFormat")
    ELSE [r EXCEPT !.phase = "parsed"]

\* line 136 left out: read_exact is called whatever the buffer holds
ExceedsNever(length, available_data) == FALSE

\* the comparison of line 136 written with >=
ExceedsOrEquals(length, available_data) == length >= available_data

\* the comparison of line 136 off by one the other way
ExceedsByTwo(length, available_data) == length > available_data + 1

\* line 136: length > available_data
ExceedsAvailable(length, available_data) == length > available_data

\* the header of lines 131-152 looked up in either spelling of its name
BeginBodyAnyCase(r) ==
    LET key == IF ContentLength \in DOMAIN r.headers THEN ContentLength
               ELSE <<"content-length">>
        r1 == [r EXCEPT !.avail = Len(r.buf)]
    IN  IF key \in DOMAIN r.headers
        THEN IF ParseUsize(r.headers[key]) = -1 THEN Fail(r1, "InvalidContentLength")
             ELSE IF ExceedsAvailable(ParseUsize(r.headers[key]), Len(r.buf))
             THEN Fail(r1, "ContentLengthExceedsData")
             ELSE [r1 EXCEPT !.phase = "body", !.length = ParseUsize(r.headers[key]),
                             !.need = ParseUsize(r.headers[key])]
        ELSE CheckContentType(r1)

\* lines 131-152, up to the call of read_exact; avail records
\* buf_reader.buffer().len() as the header block ends
BeginBody(r) ==
    LET r1 == [r EXCEPT !.avail = Len(r.buf)]
    IN  IF ContentLength \in DOMAIN r.headers
        THEN LET length == ParseUsize(r.headers[ContentLength])
             IN  IF length = -1 THEN Fail(r1, "InvalidContentLength")
                 ELSE IF ExceedsAvailable(length, Len(r.buf))
                 THEN Fail(r1, "ContentLengthExceedsData")
                 ELSE [r1 EXCEPT !.phase = "body", !.length = length, !.need = length]
        ELSE CheckContentType(r1)

\* lines 141-148: read_exact takes what the buffer holds and reads the
\* socket for the rest; a read of 0 before the end is ReadBodyError
ReadExact(r) ==
    LET n == Min(r.need, Len(r.buf))
        r1 == [r EXCEPT !.raw = @ \o Take(r.buf, n), !.buf = Drop(@, n),
                        !.need = @ - n, !.consumed = @ + n]
    IN  IF r1.need = 0
        THEN LET body == Lossy(r1.raw)
             IN  IF Len(body) # r1.length THEN Fail(r1, "BodyLengthMismatch")
                 ELSE CheckContentType([r1 EXCEPT !.body = body])
        ELSE IF r1.eof THEN Fail(r1, "ReadBodyError")
        ELSE r1

\* lines 94-106: the request line that read_line returned
RequestLine(r, request_line) ==
    IF ~IsUtf8(request_line) THEN Fail(r, "ReadRequestLineError")
    ELSE LET parts == SplitWhitespace(request_line)
         IN  IF Len(parts) < 2 THEN Fail(r, "InvalidRequestLineFormat")
             ELSE [r EXCEPT !.method = parts[1], !.uri = parts[2], !.phase = "headers"]

\* the header loop skipping a line without ": " instead of returning Err
HeaderLineSkipping(r, header_line) ==
    IF ~IsUtf8(header_line) THEN Fail(r, "ReadHeaderLineError")
    ELSE IF header_line = CRLF \/ header_line = <<>> THEN BeginBody(r)
    ELSE IF Len(SplitN2(header_line)) = 2
         THEN [r EXCEPT !.headers = Insert(@, SplitN2(header_line)[1],
                                           Trim(SplitN2(header_line)[2]))]
         ELSE r

\* lines 110-129: one turn of the header loop on the line read_line returned
HeaderLine(r, header_line) ==
    IF ~IsUtf8(header_line) THEN Fail(r, "ReadHeaderLineError")
    ELSE IF header_line = CRLF \/ header_line = <<>> THEN BeginBody(r)
    ELSE LET header_parts == SplitN2(header_line)
         IN  IF Len(header_parts) = 2
             THEN [r EXCEPT !.headers = Insert(@, header_parts[1], Trim(header_parts[2]))]
             ELSE [Fail(r, "InvalidHeaderLine") EXCEPT !.errLine = header_line]

GotLine(r, line) ==
    IF r.phase = "reqline" THEN RequestLine(r, line) ELSE HeaderLine(r, line)

\* parse_request from where it stands to its next read of the socket or to
\* its return.  read_line (read_until) hands over the buffer up to the first
\* LF; with no LF in the buffer it takes the whole buffer and reads again;
\* a read of 0 ends the line.
RECURSIVE Advance(_)
Advance(r) ==
    IF r.phase \in {"reqline", "headers"}
    THEN LET i == IndexOf(r.buf, LF)
         IN  IF i > 0
             THEN Advance(GotLine([r EXCEPT !.buf = Drop(@, i), !.partial = <<>>,
                                            !.consumed = @ + i],
                                  r.partial \o Take(r.buf, i)))
             ELSE IF r.eof
             THEN Advance(GotLine([r EXCEPT !.buf = <<>>, !.partial = <<>>,
                                            !.consumed = @ + Len(r.buf)],
                                  r.partial \o r.buf))
             ELSE [r EXCEPT !.partial = @ \o r.buf, !.buf = <<>>,
                            !.consumed = @ + Len(r.buf)]
    ELSE IF r.phase = "body" THEN ReadExact(r)
    ELSE r

----------------------------------------------------------------------------
(* endpoints.rs.  Each function is given the request body and the bytes of *)
(* one_piece2.json as File::open finds them, and yields                    *)
(*   kind "reply": it returns text without writing the file,               *)
(*   kind "write": it goes on to File::create and to_writer_pretty with    *)
(*                 chars, then returns text,                               *)
(*   kind "panic": an expect or unwrap fails.                              *)
(* read tells whether the file was opened.                                 *)

Text(kind, text, chars, read) ==
    [kind |-> kind, text |-> text, chars |-> chars, read |-> read]

Panicked == Text("panic", <<>>, <<>>, TRUE)

Success == <<"Success!">>

\* Vec::insert(index, x) and Vec::remove(index), with indices from 1
InsertAt(v, index, x) == Take(v, index - 1) \o <<x>> \o Drop(v, index - 1)

RemoveAt(v, index) == Take(v, index - 1) \o Drop(v, index)

\* Iterator::position / the counting loop of put_entry: 0 is None
PositionOf(chars, id) ==
    IF \E i \in 1..Len(chars) : chars[i].id = id
    THEN CHOOSE i \in 1..Len(chars) :
            chars[i].id = id /\ \A j \in 1..(i - 1) : chars[j].id # id
    ELSE 0

\* get_entries, after from_reader
Entries(limit, characters) ==
    IF ~characters.ok THEN Panicked
    ELSE IF limit = 0 THEN Text("reply", ToJson(characters.val, FALSE), <<>>, TRUE)
    ELSE IF limit > Len(characters.val) THEN Panicked
    ELSE Text("reply", ToJson(Take(characters.val, limit), FALSE), <<>>, TRUE)

get_entries(limit, file) == Entries(limit, FromReader(file))

\* the id of line 61 taken from the number of characters
NextIdByCount(characters) == Len(characters) + 1

\* line 61: new_character.id = characters.last().unwrap().id + 1
NextId(characters) == characters[Len(characters)].id + 1

\* post_entry, after from_str (new_character) and, when that is Ok,
\* from_reader (characters)
Posted(new_character, characters) ==
    IF ~new_character.ok THEN Text("reply", <<"Error">>, <<>>, FALSE)
    ELSE IF ~characters.ok \/ characters.val = <<>> THEN Panicked
    ELSE Text("write", Success,
              Append(characters.val,
                     [Character(new_character.val) EXCEPT !.id = NextId(characters.val)]),
              TRUE)

post_entry(req, file) == Posted(FromStr(req, CharacterFields), FromReader(file))

\* lines 102-103 with characters.remove(index) after the insert
ReplaceRemovingNew(characters, index, new_character) ==
    RemoveAt(InsertAt(characters, index, new_character), index)

\* lines 102-103: characters.insert(index, new_character);
\* characters.remove(index + 1)
Replace(characters, index, new_character) ==
    RemoveAt(InsertAt(characters, index, new_character), index + 1)

\* lines 91-103, index being 0 when the loop ends with flag == false
Replaced(characters, index, new_character) ==
    IF index = 0 THEN Text("reply", <<"Error">>, <<>>, TRUE)
    ELSE Text("write", Success, Replace(characters, index, new_character), TRUE)

Put(new_character, characters) ==
    IF ~new_character.ok THEN Text("reply", <<"Error">>, <<>>, FALSE)
    ELSE IF ~characters.ok THEN Panicked
    ELSE Replaced(characters.val,
                  PositionOf(characters.val, new_character.val["\"id\""]),
                  Character(new_character.val))

put_entry(req, file) == Put(FromStr(req, CharacterFields), FromReader(file))

\* the renamed character pushed instead of changed in place
RenamePushing(characters, index, name) ==
    Append(characters, [characters[index] EXCEPT !.name = name])

\* lines 138-142: the first character with the id gets the name
Rename(characters, index, name) == [characters EXCEPT ![index].name = name]

\* lines 138-149 with the return of line 141 after the file is rewritten
RenamedWriting(characters, index, name) ==
    IF index = 0
    THEN Text("write", <<"Character", SP, "not", SP, "found">>, characters, TRUE)
    ELSE Text("write", <<"Success">>, Rename(characters, index, name), TRUE)

Renamed(characters, index, name) ==
    IF index = 0 THEN Text("reply", <<"Character", SP, "not", SP, "found">>, <<>>, TRUE)
    ELSE Text("write", <<"Success">>, Rename(characters, index, name), TRUE)

Patched(patch, characters) ==
    IF ~patch.ok THEN Text("reply", <<"Format", SP, "not", SP, "valid">>, <<>>, FALSE)
    ELSE IF ~characters.ok THEN Panicked
    ELSE Renamed(characters.val, PositionOf(characters.val, patch.val["\"id\""]),
                 patch.val["\"name\""])

patch_entry_name(req, file) == Patched(FromStr(req, PatchNameFields), FromReader(file))

\* the match of lines 176-183 without its return of "Error"
RemovedOrNot(characters, index) ==
    IF index = 0 THEN Text("write", Success, characters, TRUE)
    ELSE Text("write", Success, RemoveAt(characters, index), TRUE)

\* lines 175-183 as they are meant: position is Some(element_index) or None
\* (the match is written with Ok and Err); index is 0 for None
Removed(characters, index) ==
    IF index = 0 THEN Text("reply", <<"Error">>, <<>>, TRUE)
    ELSE Text("write", Success, RemoveAt(characters, index), TRUE)

Deleted(delete_req, characters) ==
    IF ~delete_req.ok THEN Text("reply", <<"Error">>, <<>>, FALSE)
    ELSE IF ~characters.ok THEN Panicked
    ELSE Removed(characters.val, PositionOf(characters.val, delete_req.val["\"id\""]))

delete_entry(req, file) == Deleted(FromStr(req, DeleteFields), FromReader(file))

----------------------------------------------------------------------------
(* The router: handle_get .. handle_delete and the match of                *)
(* handle_connection.  The result is the text of the endpoint with the     *)
(* status line and the name of the handle_ function that was called.       *)

SERVER_RESPONSE_OK == <<"HTTP/1.1", SP, "200", SP, "OK">>

SERVER_RESPONSE_ERROR == <<"HTTP/1.1", SP, "404", SP, "NOT", SP, "FOUND">>

MethodNotAllowed == <<"HTTP/1.1", SP, "405", SP, "METHOD", SP, "NOT", SP, "ALLOWED">>

NotFoundBody == <<"404", SP, "-", SP, "Not", SP, "Found">>

Routed(handler, status_line, t) ==
    [handler |-> handler, status |-> status_line, kind |-> t.kind, text |-> t.text,
     chars |-> t.chars, read |-> t.read]

Static(text) == Text("reply", text, <<>>, FALSE)

\* handle_get matching the path without its query string (from the first ?)
handle_get_without_query(uri, file) ==
    LET path == IF IndexOf(uri, "?") = 0 THEN uri ELSE Take(uri, IndexOf(uri, "?") - 1)
    IN  IF path = <<"/">>
        THEN Routed("handle_get", SERVER_RESPONSE_OK,
                    Static(<<"Welcome", SP, "to", SP, "the", SP, "homepage!">>))
        ELSE IF path = <<"/hello">>
        THEN Routed("handle_get", SERVER_RESPONSE_OK, Static(<<"Hello,", SP, "world!">>))
        ELSE IF path = <<"/data">>
        THEN Routed("handle_get", SERVER_RESPONSE_OK,
                    Static(<<"Here", SP, "is", SP, "your", SP, "data.">>))
        ELSE IF path = <<"/entries">>
        THEN Routed("handle_get", SERVER_RESPONSE_OK, get_entries(0, file))
        ELSE Routed("handle_get", SERVER_RESPONSE_ERROR, Static(NotFoundBody))

handle_get(uri, file) ==
    IF uri = <<"/">>
    THEN Routed("handle_get", SERVER_RESPONSE_OK,
                Static(<<"Welcome", SP, "to", SP, "the", SP, "homepage!">>))
    ELSE IF uri = <<"/hello">>
    THEN Routed("handle_get", SERVER_RESPONSE_OK, Static(<<"Hello,", SP, "world!">>))
    ELSE IF uri = <<"/data">>
    THEN Routed("handle_get", SERVER_RESPONSE_OK,
                Static(<<"Here", SP, "is", SP, "your", SP, "data.">>))
    ELSE IF uri = <<"/entries">>
    THEN Routed("handle_get", SERVER_RESPONSE_OK, get_entries(0, file))
    ELSE Routed("handle_get", SERVER_RESPONSE_ERROR, Static(NotFoundBody))

handle_post(uri, body, file) ==
    IF uri = <<"/submit">>
    THEN Routed("handle_post", SERVER_RESPONSE_OK, post_entry(body, file))
    ELSE Routed("handle_post", SERVER_RESPONSE_ERROR, Static(NotFoundBody))

\* handle_put with the status line chosen by the answer of put_entry
handle_put_by_answer(uri, body, file) ==
    IF uri = <<"/put_entry">>
    THEN Routed("handle_put",
                IF put_entry(body, file).text = <<"Error">>
                THEN SERVER_RESPONSE_ERROR ELSE SERVER_RESPONSE_OK,
                put_entry(body, file))
    ELSE Routed("handle_put", SERVER_RESPONSE_ERROR, Static(NotFoundBody))

handle_put(uri, body, file) ==
    IF uri = <<"/put_entry">>
    THEN Routed("handle_put", SERVER_RESPONSE_OK, put_entry(body, file))
    ELSE Routed("handle_put", SERVER_RESPONSE_ERROR, Static(NotFoundBody))

handle_patch(uri, body, file) ==
    IF uri = <<"/patch_entry_name">>
    THEN Routed("handle_patch", SERVER_RESPONSE_OK, patch_entry_name(body, file))
    ELSE Routed("handle_patch", SERVER_RESPONSE_ERROR, Static(NotFoundBody))

handle_delete(uri, body, file) ==
    IF uri = <<"/delete_entry">>
    THEN Routed("handle_delete", SERVER_RESPONSE_OK, delete_entry(body, file))
    ELSE Routed("handle_delete", SERVER_RESPONSE_ERROR, Static(NotFoundBody))

\* the match of lines 226-236 with GET as its last arm
DispatchOrGet(method, uri, body, file) ==
    IF method = <<"POST">> THEN handle_post(uri, body, file)
    ELSE IF method = <<"PUT">> THEN handle_put(uri, body, file)
    ELSE IF method = <<"DELETE">> THEN handle_delete(uri, body, file)
    ELSE IF method = <<"PATCH">> THEN handle_patch(uri, body, file)
    ELSE handle_get(uri, file)

\* handle_connection, lines 226-236
Dispatch(method, uri, body, file) ==
    IF method = <<"GET">> THEN handle_get(uri, file)
    ELSE IF method = <<"POST">> THEN handle_post(uri, body, file)
    ELSE IF method = <<"PUT">> THEN handle_put(uri, body, file)
    ELSE IF method = <<"DELETE">> THEN handle_delete(uri, body, file)
    ELSE IF method = <<"PATCH">> THEN handle_patch(uri, body, file)
    ELSE Routed("none", MethodNotAllowed,
                Static(<<"405", SP, "-", SP, "Method", SP, "Not", SP, "Allowed">>))

----------------------------------------------------------------------------
(* The response: cookies and the bytes written to the socket *)

\* seconds added by get_cookie_expiration(30)
NewCookieSecs == 30

\* DateTime::format("%a, %d %b %Y %H:%M:%S GMT") of the second t
FormatDate(t) == <<"date">> \o ToDigits(t) \o <<SP, "GMT">>

get_cookie_expiration(duration_secs, time) == FormatDate(time + duration_secs)

\* str::split(';'): the pieces between the separators, empty ones included
RECURSIVE SplitOn(_, _)
SplitOn(s, sep) ==
    IF IndexOf(s, sep) = 0 THEN <<s>>
    ELSE <<Take(s, IndexOf(s, sep) - 1)>> \o SplitOn(Drop(s, IndexOf(s, sep)), sep)

\* parse_cookies, lines 60-65: the pieces of the Cookie header in turn
RECURSIVE CookiesOf(_, _)
CookiesOf(pieces, cookies) ==
    IF pieces = <<>> THEN cookies
    ELSE CookiesOf(Tail(pieces),
                   IF IndexOf(Head(pieces), "=") = 0 THEN cookies
                   ELSE Insert(cookies,
                               Trim(Take(Head(pieces), IndexOf(Head(pieces), "=") - 1)),
                               Trim(Drop(Head(pieces), IndexOf(Head(pieces), "=")))))

parse_cookies(headers) ==
    IF <<"Cookie">> \in DOMAIN headers
    THEN CookiesOf(SplitOn(headers[<<"Cookie">>], ";"), EmptyMap)
    ELSE EmptyMap

\* DateTime::parse_from_rfc2822 of what FormatDate writes: the second, -1
\* for Err
ParseDate(s) ==
    IF /\ Len(s) >= 4
       /\ s[1] = "date" /\ s[Len(s) - 1] = SP /\ s[Len(s)] = "GMT"
       /\ \A i \in 2..(Len(s) - 2) : s[i] \in Digit
    THEN DigitsValue(SubSeq(s, 2, Len(s) - 2))
    ELSE -1

is_cookie_expired(expiration_date, time) ==
    IF ParseDate(expiration_date) # -1 THEN ParseDate(expiration_date) < time
    ELSE FALSE

\* lines 193-199: valid_cookies
ValidCookies(cookies, time) ==
    [name \in {n \in DOMAIN cookies : ~is_cookie_expired(cookies[n], time)} |->
        cookies[name]]

\* expires is <<>> for None and <<date>> for Some(date)
set_cookie(cookies, name, value, expires) ==
    LET cookie == <<name, "=", value, ";", SP, "Path=/", ";", SP, "HttpOnly">>
    IN  Append(cookies,
               IF expires = <<>> THEN cookie
               ELSE cookie \o <<";", SP, "Expires=">> \o expires[1])

\* lines 204-224
SetCookieHeaders(time) ==
    set_cookie(
        set_cookie(<<>>, "old_cookie", "won't_be_set",
                   <<get_cookie_expiration(0, time)>>),
        "new_cookie", "will_be_set_but_won't_last_long",
        <<get_cookie_expiration(NewCookieSecs, time)>>)

RECURSIVE CookieLines(_)
CookieLines(cookies) ==
    IF cookies = <<>> THEN <<>>
    ELSE <<"Set-Cookie", COLON, SP>> \o Head(cookies) \o CRLF \o CookieLines(Tail(cookies))

\* the length of line 238 taken with the empty line before the body
BodyLengthFramed(response_body) == Len(CRLF \o response_body)

\* line 238: let length = response_body.len()
BodyLength(response_body) == Len(response_body)

\* lines 238-245
Response(status_line, response_body, set_cookie_headers) ==
    status_line \o CRLF
    \o <<"Content-Length", COLON, SP>> \o ToDigits(BodyLength(response_body)) \o CRLF
    \o CookieLines(set_cookie_headers)
    \o CRLF \o response_body

----------------------------------------------------------------------------
(* The server.                                                             *)
(*   conn[c]  connection c, numbered in the order of connecting: its       *)
(*            client, its socket, its task in the pool and the locals of   *)
(*            the handle_connection that runs it                           *)
(*   queue    the tasks submitted by pool.execute and not yet taken        *)
(*   idle     the number of workers waiting for a task                     *)
(*   dead     the number of workers whose thread panicked                  *)
(*   store    the bytes of one_piece2.json                                 *)
(*   now      the clock, in seconds, as last read                          *)
(* In conn[c], runs counts the calls of the task, fileOps the operations   *)
(* of its handler on the file, and before and after keep the file as it   *)
(* was when the handler was called and when the connection was closed.    *)
(*   clients  "sequential": a client connects after the connection before  *)
(*            it was closed (as send_request does); "concurrent": when the *)
(*            clients before it have written their requests, whether or    *)
(*            not these are served                                         *)

VARIABLES conn, queue, idle, dead, store, now, clients

vars == <<conn, queue, idle, dead, store, now, clients>>

\* ThreadPool::new(5) in main
worker_count == 5

\* the capacity of BufReader::new (DEFAULT_BUF_SIZE), scaled to the model
BufCapacity == 32

MaxTime == 1

Conns == DOMAIN conn

\* a connection before its client connects: wire is what the client will
\* send, in at most segs writes, and closes tells whether it shuts its
\* sending side down after the last byte
NewConn(wire, segs, closes) ==
    [wire |-> wire, sent |-> 0, segs |-> segs, closes |-> closes, shut |-> FALSE,
     arrived |-> <<>>, st |-> "new", pc |-> "none",
     buf |-> <<>>, partial |-> <<>>, eof |-> FALSE, consumed |-> 0,
     phase |-> "reqline", method |-> <<>>, uri |-> <<>>, headers |-> EmptyMap,
     length |-> 0, need |-> 0, raw |-> <<>>, body |-> <<>>,
     err |-> "none", errLine |-> <<>>, avail |-> -1,
     handler |-> "none", status |-> <<>>, text |-> <<>>, chars |-> <<>>,
     valid |-> EmptyMap, cookies |-> <<>>, resp |-> <<>>,
     runs |-> 0, fileOps |-> 0, before |-> <<>>, after |-> <<>>]

\* TcpStream::connect by the client of c
Connect(c) ==
    /\ conn[c].st = "new"
    /\ \A d \in Conns : d < c =>
          IF clients = "sequential" THEN conn[d].st = "closed"
          ELSE conn[d].st # "new" /\ conn[d].sent = Len(conn[d].wire)
    /\ conn' = [conn EXCEPT ![c].st = "backlog"]
    /\ UNCHANGED <<queue, idle, dead, store, now, clients>>

\* one write of the client reaches the socket of c: the next k bytes
Send(c) ==
    /\ conn[c].st \in {"backlog", "queued", "running"}
    /\ conn[c].segs > 0
    /\ conn[c].sent < Len(conn[c].wire)
    /\ \E k \in 1..(Len(conn[c].wire) - conn[c].sent) :
          /\ conn[c].segs = 1 => k = Len(conn[c].wire) - conn[c].sent
          /\ conn' = [conn EXCEPT
                 ![c].arrived = @ \o SubSeq(conn[c].wire, conn[c].sent + 1,
                                            conn[c].sent + k),
                 ![c].sent = @ + k,
                 ![c].segs = @ - 1]
    /\ UNCHANGED <<queue, idle, dead, store, now, clients>>

\* the client of c shuts down its sending side
Shutdown(c) ==
    /\ conn[c].st \in {"backlog", "queued", "running"}
    /\ conn[c].closes /\ ~conn[c].shut
    /\ conn[c].sent = Len(conn[c].wire)
    /\ conn' = [conn EXCEPT ![c].shut = TRUE]
    /\ UNCHANGED <<queue, idle, dead, store, now, clients>>

\* pool.execute called twice for one stream
SubmitTwice(q, c) == Append(Append(q, c), c)

\* main, lines 46-54: one turn of the loop over listener.incoming();
\* pool.execute puts the closure that owns the stream on the queue
Submit(q, c) == Append(q, c)

\* the loop of lines 46-54 calling the closure on a thread of its own
\* (thread::spawn) instead of pool.execute
AcceptSpawning(c) ==
    /\ conn[c].st = "backlog"
    /\ \A d \in Conns : d < c => conn[d].st # "backlog"
    /\ conn' = [conn EXCEPT ![c].st = "running", ![c].pc = "parse",
                            ![c].runs = @ + 1]
    /\ idle' = idle - 1
    /\ UNCHANGED <<queue, dead, store, now, clients>>

Accept(c) ==
    /\ conn[c].st = "backlog"
    /\ \A d \in Conns : d < c => conn[d].st # "backlog"
    /\ queue' = Submit(queue, c)
    /\ conn' = [conn EXCEPT ![c].st = "queued"]
    /\ UNCHANGED <<idle, dead, store, now, clients>>

\* a waiting worker takes the oldest task and calls it
Dequeue ==
    /\ idle > 0
    /\ queue # <<>>
    /\ idle' = idle - 1
    /\ queue' = Tail(queue)
    /\ conn' = [conn EXCEPT ![Head(queue)].st = "running",
                            ![Head(queue)].pc = "parse",
                            ![Head(queue)].runs = @ + 1]
    /\ UNCHANGED <<dead, store, now, clients>>

\* handle_connection returns: the stream is dropped, the worker waits again
Returned(r, file) == [r EXCEPT !.st = "closed", !.pc = "done", !.after = file]

\* BufReader::fill_buf: one read of the socket takes what has arrived, up to
\* the capacity; it returns 0 bytes at the end of the stream
Filled(r) ==
    [r EXCEPT !.buf = Take(r.arrived, Min(Len(r.arrived), BufCapacity)),
              !.arrived = Drop(@, Min(Len(r.arrived), BufCapacity)),
              !.eof = (r.arrived = <<>>)]

\* handle_connection going on to the routing after an Err of parse_request
ParsedOrNot(r, file) ==
    IF r.phase \in {"parsed", "failed"} THEN [r EXCEPT !.pc = "route"] ELSE r

\* handle_connection, lines 179-185, r being the connection as parse_request
\* left it: Ok goes on, Err returns, and otherwise parse_request waits for
\* bytes
Parsed(r, file) ==
    IF r.phase = "parsed" THEN [r EXCEPT !.pc = "route"]
    ELSE IF r.phase = "failed" THEN Returned(r, file)
    ELSE r

Resumed(c, r) ==
    /\ conn' = [conn EXCEPT ![c] = r]
    /\ idle' = IF r.st = "closed" THEN idle + 1 ELSE idle

\* the read of the socket returning only at the end of the stream
ReadableAtEnd(c) ==
    /\ conn[c].st = "running" /\ conn[c].pc = "parse"
    /\ conn[c].shut

\* handle_connection, lines 178-185: parse_request from one read of the
\* socket, which waits while nothing has arrived and the stream is open
Readable(c) ==
    /\ conn[c].st = "running" /\ conn[c].pc = "parse"
    /\ conn[c].arrived # <<>> \/ conn[c].shut

ReaderFill(c) ==
    /\ Readable(c)
    /\ Resumed(c, Parsed(Advance(Filled(conn[c])), store))
    /\ UNCHANGED <<queue, dead, store, now, clients>>

\* handle_connection setting old_cookie only when the request brought no
\* valid cookie
HandledByCookies(r, t, time, file) ==
    [r EXCEPT !.handler = t.handler, !.status = t.status, !.text = t.text,
              !.chars = t.chars,
              !.valid = ValidCookies(parse_cookies(r.headers), time),
              !.cookies = IF ValidCookies(parse_cookies(r.headers), time) = EmptyMap
                          THEN SetCookieHeaders(time)
                          ELSE Tail(SetCookieHeaders(time)),
              !.before = file, !.after = IF t.kind = "panic" THEN file ELSE @,
              !.fileOps = IF t.read THEN @ + 1 ELSE @,
              !.st = IF t.kind = "panic" THEN "closed" ELSE @,
              !.pc = IF t.kind = "panic" THEN "panicked"
                     ELSE IF t.kind = "write" THEN "create" ELSE "respond"]

\* the handler t has returned, panicked or reached its File::create; valid
\* is valid_cookies of lines 193-199, which nothing reads but a println
Handled(r, t, time, file) ==
    [r EXCEPT !.handler = t.handler, !.status = t.status, !.text = t.text,
              !.chars = t.chars, !.cookies = SetCookieHeaders(time),
              !.valid = ValidCookies(parse_cookies(r.headers), time),
              !.before = file, !.after = IF t.kind = "panic" THEN file ELSE @,
              !.fileOps = IF t.read THEN @ + 1 ELSE @,
              !.st = IF t.kind = "panic" THEN "closed" ELSE @,
              !.pc = IF t.kind = "panic" THEN "panicked"
                     ELSE IF t.kind = "write" THEN "create" ELSE "respond"]

Routing(c, time, t) ==
    /\ now' = time
    /\ conn' = [conn EXCEPT ![c] = Handled(conn[c], t, time, store)]
    /\ dead' = IF t.kind = "panic" THEN dead + 1 ELSE dead

\* handle_connection, lines 186-236: the cookies (SystemTime::now() is read,
\* at the time of the reading before or later) and the match on the method,
\* up to the handler's return, to its panic (the thread unwinds, the stream
\* is dropped, the worker is gone) or to its File::create
Route(c) ==
    /\ conn[c].st = "running" /\ conn[c].pc = "route"
    /\ \E time \in now..MaxTime :
          Routing(c, time, Dispatch(conn[c].method, conn[c].uri, conn[c].body, store))
    /\ UNCHANGED <<queue, idle, store, clients>>

\* File::create(file_path) truncates the file
StoreCreate(c) ==
    /\ conn[c].st = "running" /\ conn[c].pc = "create"
    /\ store' = <<>>
    /\ conn' = [conn EXCEPT ![c].pc = "write", ![c].fileOps = @ + 1]
    /\ UNCHANGED <<queue, idle, dead, now, clients>>

\* the write of lines 69-72 without the newline after the list
StoreWriteBare(c) ==
    /\ conn[c].st = "running" /\ conn[c].pc = "write"
    /\ store' = ToJson(conn[c].chars, TRUE)
    /\ conn' = [conn EXCEPT ![c].pc = "respond", ![c].fileOps = @ + 1]
    /\ UNCHANGED <<queue, idle, dead, now, clients>>

\* to_writer_pretty and the newline reach the file as the BufWriter is dropped
StoreWrite(c) ==
    /\ conn[c].st = "running" /\ conn[c].pc = "write"
    /\ store' = FileOf(conn[c].chars)
    /\ conn' = [conn EXCEPT ![c].pc = "respond", ![c].fileOps = @ + 1]
    /\ UNCHANGED <<queue, idle, dead, now, clients>>

\* handle_connection, lines 238-247: the response is written and the
\* function returns
Respond(c) ==
    /\ conn[c].st = "running" /\ conn[c].pc = "respond"
    /\ conn' = [conn EXCEPT ![c] =
                   Returned([conn[c] EXCEPT !.resp = Response(conn[c].status,
                                                               conn[c].text,
                                                               conn[c].cookies)],
                            store)]
    /\ idle' = idle + 1
    /\ UNCHANGED <<queue, dead, store, now, clients>>

Next ==
    \/ \E c \in Conns : Connect(c)
    \/ \E c \in Conns : Send(c)
    \/ \E c \in Conns : Shutdown(c)
    \/ \E c \in Conns : Accept(c)
    \/ Dequeue
    \/ \E c \in Conns : ReaderFill(c)
    \/ \E c \in Conns : Route(c)
    \/ \E c \in Conns : StoreCreate(c)
    \/ \E c \in Conns : StoreWrite(c)
    \/ \E c \in Conns : Respond(c)

----------------------------------------------------------------------------
(* Requests *)

RequestLineOf(method, uri) == <<method, SP, uri, SP, "HTTP/1.1">> \o CRLF

Header(name, value) == <<name, COLON, SP>> \o value \o CRLF

RECURSIVE Concat(_)
Concat(ss) == IF ss = <<>> THEN <<>> ELSE Head(ss) \o Concat(Tail(ss))

\* a request as the tests write it: the request line, the headers, the
\* empty line, the body
Request(method, uri, headers, body) ==
    RequestLineOf(method, uri) \o Concat(headers) \o CRLF \o body

WithLength(body) == Header("Content-Length", ToDigits(Len(body)))

Char(id, rank, name) == [id |-> id, rank |-> rank, name |-> name]

IdBody(id) == <<"{", "\"id\"", COLON>> \o ToDigits(id) \o <<"}">>

PatchBody(id, name) ==
    <<"{", "\"id\"", COLON>> \o ToDigits(id) \o <<",", "\"name\"", COLON, name, "}">>

SeedStore == <<Char(1, "\"r\"", "\"A\""), Char(2, "\"s\"", "\"B\"")>>

InitWith(cs, mode, file) ==
    /\ conn = cs
    /\ queue = <<>>
    /\ idle = worker_count
    /\ dead = 0
    /\ store = file
    /\ now = 0
    /\ clients = mode

----------------------------------------------------------------------------
(* One connection and the framer: request lines, header blocks, the end of *)
(* the header block and bodies in every combination, sent in at most       *)
(* MaxSegments writes cut anywhere, with or without a shutdown at the end  *)

MaxSegments == 2

ParseLines ==
    { RequestLineOf("GET", "/hello"),
      <<"DELETE", SP, "/delete_entry">> \o CRLF,
      <<"GET">> \o CRLF,
      <<"GET", SP, BAD>> \o CRLF }

LengthValues == {<<"0">>, <<"1">>, <<"2">>, <<"5">>, <<"+", "2">>, <<"x">>, <<"0", "2">>}

HostHeader == Header("Host", <<"localhost">>)

CookieHeader == Header("Cookie", <<"session_id", "=", "123456">>)

ParseHeaderBlocks ==
    { <<>>, HostHeader, <<LF>>,
      Header("content-length", <<"2">>),
      Header("Content-Type", <<"application/json">>),
      Header("Content-Type", <<"text/plain">>) \o Header("Content-Length", <<"2">>),
      Header("Content-Type", <<"text/html">>) \o Header("Content-Length", <<"2">>),
      Header("Content-Type", <<"TEXT/PLAIN">>) \o Header("Content-Length", <<"2">>),
      <<"Host", COLON, "localhost">> \o CRLF \o Header("Content-Length", <<"2">>),
      HostHeader \o <<"Host">> \o CRLF,
      Header("Host", <<BAD>>),
      Header("Content-Length", <<"2">>) \o Header("Content-Length", <<"1">>),
      HostHeader \o CookieHeader \o Header("Content-Length", <<"5">>) }
    \cup { Header("Content-Length", v) : v \in LengthValues }
    \cup { Header("Content-Type", <<"application/json">>) \o Header("Content-Length", v) :
             v \in {<<"1">>, <<"2">>, <<"5">>} }

ParseBodies == { <<>>, <<"a">>, <<"a", "b">>, <<"1", "2">>, IdBody(2), <<BAD, "a">> }

ParseRequests ==
    { l \o h \o e \o b : l \in ParseLines, h \in ParseHeaderBlocks,
                         e \in {CRLF, <<>>}, b \in ParseBodies }

InitParse ==
    \E wire \in ParseRequests, segs \in 1..MaxSegments, closes \in BOOLEAN :
        InitWith(<<NewConn(wire, segs, closes)>>, "sequential", FileOf(SeedStore))

SpecParse == InitParse /\ [][Next]_vars

----------------------------------------------------------------------------
(* Two clients in turn and the router: every method on every path with     *)
(* every kind of body, then a request that no handler serves               *)

RouteMethods == {"GET", "POST", "PUT", "PATCH", "DELETE", "HEAD", "get"}

RouteUris ==
    {"/", "/hello", "/data", "/entries", "/submit", "/put_entry",
     "/patch_entry_name", "/delete_entry", "/missing", "/Hello"}

RouteBodies ==
    { <<>>, IdBody(2), PatchBody(2, "\"X\""),
      CharacterJson(Char(2, "\"r\"", "\"X\""), FALSE), <<"{">> }

\* a request as send_request writes it, in one write
Framed(method, uri, body) ==
    Request(method, uri, IF body = <<>> THEN <<>> ELSE <<WithLength(body)>>, body)

RouteRequests ==
    { Framed(method, uri, body) :
        method \in RouteMethods, uri \in RouteUris, body \in RouteBodies }

UnservedRequests ==
    { Framed("HEAD", "/hello", <<>>), Framed("OPTIONS", "/submit", IdBody(2)),
      Framed("GET", "/nothing", <<>>) }

InitRoute ==
    \E w1 \in RouteRequests, w2 \in UnservedRequests, closes \in BOOLEAN,
       chars \in {SeedStore, <<>>} :
        InitWith(<<NewConn(w1, 1, closes), NewConn(w2, 1, FALSE)>>,
                 "sequential", FileOf(chars))

SpecRoute == InitRoute /\ [][Next]_vars

----------------------------------------------------------------------------
(* Two clients in turn and the entry store: every pair of requests to the  *)
(* endpoints, on stores of zero to three records in ascending order of id, *)
(* the order every endpoint keeps                                          *)

StoreLists ==
    { <<>>,
      <<Char(1, "\"r\"", "\"A\"")>>,
      SeedStore,
      <<Char(1, "\"r\"", "\"A\""), Char(3, "\"s\"", "\"A\"")>>,
      <<Char(1, "\"r\"", "\"A\""), Char(2, "\"s\"", "\"B\""), Char(3, "\"s\"", "\"A\"")>> }

PostRequest(id, rank, name) ==
    Framed("POST", "/submit", CharacterJson(Char(id, rank, name), FALSE))

PutRequest(id, rank, name) ==
    Framed("PUT", "/put_entry", CharacterJson(Char(id, rank, name), FALSE))

PatchRequest(id, name) == Framed("PATCH", "/patch_entry_name", PatchBody(id, name))

DeleteRequest(id) == Framed("DELETE", "/delete_entry", IdBody(id))

EntriesRequest == Framed("GET", "/entries", <<>>)

PostIds == {1, 7}

PatchIds == {1, 2, 4}

PatchNames == {"\"X\"", "\"A\""}

DeleteIds == {1, 2, 3}

StoreRequests ==
    {EntriesRequest, PutRequest(2, "\"r\"", "\"X\"")}
    \cup { PostRequest(id, "\"s\"", "\"X\"") : id \in PostIds }
    \cup { PatchRequest(id, name) : id \in PatchIds, name \in PatchNames }
    \cup { DeleteRequest(id) : id \in DeleteIds }

InitStore ==
    \E w1 \in StoreRequests, w2 \in StoreRequests, closes \in BOOLEAN,
       chars \in StoreLists :
        InitWith(<<NewConn(w1, 1, closes), NewConn(w2, 1, FALSE)>>,
                 "sequential", FileOf(chars))

SpecStore == InitStore /\ [][Next]_vars

----------------------------------------------------------------------------
(* The pool: worker_count to PoolTasks clients at once, each sending a     *)
(* whole request, so that every task returns.  The first request is served *)
(* after its client shut down its sending side, the last is served and     *)
(* writes the store, and the requests between them are refused by          *)
(* parse_request.  Every thread and every client that can take a step is   *)
(* scheduled in the end.                                                   *)

PoolTasks == 6

PoolConn(c, k) ==
    NewConn(IF c = 1 THEN Framed("GET", "/hello", <<>>)
            ELSE IF c = k THEN PostRequest(7, "\"s\"", "\"X\"")
            ELSE <<"GET">> \o CRLF,
            1, c = 1)

InitPool ==
    \E k \in worker_count..PoolTasks :
        InitWith([c \in 1..k |-> PoolConn(c, k)], "concurrent", FileOf(SeedStore))

\* the steps of the clients, of the listener and of a worker taking a task
Arrivals ==
    \/ \E c \in Conns : Connect(c)
    \/ \E c \in Conns : Send(c)
    \/ \E c \in Conns : Shutdown(c)
    \/ \E c \in Conns : Accept(c)
    \/ Dequeue

\* the steps of handle_connection
Work ==
    \E c \in Conns :
        ReaderFill(c) \/ Route(c) \/ StoreCreate(c) \/ StoreWrite(c) \/ Respond(c)

\* handle_connection of c can take a step
CanWork(c) ==
    \/ Readable(c)
    \/ conn[c].st = "running" /\ conn[c].pc \in {"route", "create", "write", "respond"}

\* WF_vars(Work), with ENABLED <<Work>>_vars written as what it is (every
\* step of handle_connection changes its connection)
FairWork == []<>(\A c \in Conns : ~CanWork(c)) \/ []<><<Work>>_vars

SpecPool == InitPool /\ [][Next]_vars /\ WF_vars(Arrivals) /\ FairWork

Init == InitPool

Spec == SpecPool

----------------------------------------------------------------------------
(* What a request is, read off the bytes the client sends, for the         *)
(* statements about parse_request                                          *)

\* the lines of s, each with its LF; the last one is what follows the last LF
RECURSIVE LinesOf(_)
LinesOf(s) ==
    IF s = <<>> THEN <<>>
    ELSE IF IndexOf(s, LF) = 0 THEN <<s>>
    ELSE <<Take(s, IndexOf(s, LF))>> \o LinesOf(Drop(s, IndexOf(s, LF)))

\* the number of bytes of the first j lines
RECURSIVE EndOf(_, _)
EndOf(ls, j) == IF j = 0 THEN 0 ELSE EndOf(ls, j - 1) + Len(ls[j])

HasSeparator(line) == \E i \in 1..(Len(line) - 1) : line[i] = COLON /\ line[i + 1] = SP

IsHeaderLine(line) == IsUtf8(line) /\ line # CRLF /\ HasSeparator(line)

IsRequestLine(line) ==
    /\ IsUtf8(line)
    /\ \E i, j \in 1..Len(line) :
          i < j /\ line[i] \notin Whitespace /\ line[j] \notin Whitespace
          /\ \E k \in (i + 1)..(j - 1) : line[k] \in Whitespace

\* the first line after the request line that is no header line, 0 if none
FirstNonHeader(ls) ==
    IF \E j \in 2..Len(ls) : ~IsHeaderLine(ls[j])
    THEN CHOOSE j \in 2..Len(ls) :
            ~IsHeaderLine(ls[j]) /\ \A k \in 2..(j - 1) : IsHeaderLine(ls[k])
    ELSE 0

\* the value of the last header line among lines 2..j whose name is name,
\* <<"absent">> when there is none
RECURSIVE HeaderValue(_, _, _)
HeaderValue(ls, j, name) ==
    IF j < 2 THEN <<"absent">>
    ELSE IF Take(ls[j], FindSeparator(ls[j]) - 1) = name
         THEN Trim(Drop(ls[j], FindSeparator(ls[j]) + 1))
         ELSE HeaderValue(ls, j - 1, name)

\* ls, the lines of a request or of a response, has a first line of words,
\* header lines and the empty line at line k, the first that is no header line
HeadEndsAt(ls, k) ==
    /\ Len(ls) >= 2
    /\ IsRequestLine(ls[1])
    /\ k # 0
    /\ ls[k] = CRLF

HasHeaderBlock(w) == HeadEndsAt(LinesOf(w), FirstNonHeader(LinesOf(w)))

\* the bytes after the empty line
BodyOf(w) == Drop(w, EndOf(LinesOf(w), FirstNonHeader(LinesOf(w))))

\* the number that the Content-Length header declares, -1 if none
LengthIn(ls, k) == ParseUsize(HeaderValue(ls, k - 1, ContentLength))

DeclaredLength(w) == LengthIn(LinesOf(w), FirstNonHeader(LinesOf(w)))

DeclaredType(w) ==
    HeaderValue(LinesOf(w), FirstNonHeader(LinesOf(w)) - 1, ContentType)

\* a well-formed request with Content-Length: N and exactly N body bytes; the
\* body is text, and of the kind its Content-Type names
WellFormed(w) ==
    /\ HasHeaderBlock(w)
    /\ DeclaredLength(w) # -1
    /\ Len(BodyOf(w)) = DeclaredLength(w)
    /\ IsUtf8(BodyOf(w))
    /\ \/ DeclaredType(w) \in {<<"absent">>, <<"text/plain">>}
       \/ DeclaredType(w) = <<"application/json">> /\ IsJson(BodyOf(w))

HasReturned(c) == conn[c].phase \in {"parsed", "failed"}

----------------------------------------------------------------------------
(* Statements about parse_request, under SpecParse                         *)

ThmC2 ==
    \A c \in Conns :
        (conn[c].avail >= 0 /\ DeclaredLength(conn[c].wire) > conn[c].avail) =>
            /\ conn[c].phase = "failed"
            /\ conn[c].err = "ContentLengthExceedsData"
            /\ conn[c].st = "closed"
            /\ conn[c].pc = "done"
            /\ conn[c].resp = <<>>
            /\ conn[c].handler = "none"
            /\ conn[c].fileOps = 0

\* the declared length is one more than what the buffer holds, and the
\* buffer holds a part of the body
WitC2 ==
    \E c \in Conns :
        /\ conn[c].avail > 0
        /\ DeclaredLength(conn[c].wire) = conn[c].avail + 1
        /\ conn[c].err = "ContentLengthExceedsData"
        /\ conn[c].st = "closed"

\* C3: every line read in the header block that is not the terminating empty
\* line and does not contain the separator ": " makes parsing fail with
\* InvalidHeaderLine carrying exactly that line; no later header line or body
\* byte is consumed after the failure.
ThmC3 ==
    \A c \in Conns :
        LET ls == LinesOf(conn[c].wire)
            j == FirstNonHeader(ls)
        IN  (/\ Len(ls) >= 2
             /\ IsRequestLine(ls[1])
             /\ j # 0
             /\ IsUtf8(ls[j])
             /\ ~HasSeparator(ls[j])
             /\ ls[j] # CRLF) =>
                /\ conn[c].consumed <= EndOf(ls, j)
                /\ conn[c].err \in {"none", "InvalidHeaderLine"}
                /\ conn[c].phase # "parsed"
                /\ conn[c].phase = "failed" =>
                      /\ conn[c].err = "InvalidHeaderLine"
                      /\ conn[c].errLine = ls[j]
                      /\ conn[c].consumed = EndOf(ls, j)
                      /\ conn[c].body = <<>>
                      /\ conn[c].st = "closed"

\* a line without the separator follows a header line and is followed by
\* more of the request, which the client has sent; parsing failed at the line
WitC3 ==
    \E c \in Conns :
        /\ conn[c].err = "InvalidHeaderLine"
        /\ FirstNonHeader(LinesOf(conn[c].wire)) = 3
        /\ Len(LinesOf(conn[c].wire)) > 3
        /\ conn[c].errLine = LinesOf(conn[c].wire)[3]
        /\ conn[c].sent = Len(conn[c].wire)

\* C9: a request that fails parsing with any RequestError variant produces no
\* response bytes on the connection, invokes no route handler, and leaves the
\* store file unchanged.
ThmC9 ==
    \A c \in Conns :
        conn[c].err # "none" =>
            /\ conn[c].phase = "failed"
            /\ conn[c].st = "closed"
            /\ conn[c].pc = "done"
            /\ conn[c].resp = <<>>
            /\ conn[c].handler = "none"
            /\ conn[c].fileOps = 0
            /\ conn[c].after = FileOf(SeedStore)
            /\ store = FileOf(SeedStore)

\* a request whose body is not what its Content-Type names has failed
WitC9 ==
    \E c \in Conns :
        /\ conn[c].err = "BodyLengthMismatch"
        /\ conn[c].raw # <<>>
        /\ conn[c].st = "closed"
        /\ store = FileOf(SeedStore)

----------------------------------------------------------------------------
(* Statements about the router and the response writer, under SpecRoute    *)

RequestMethod(w) == SplitWhitespace(LinesOf(w)[1])[1]

RequestUri(w) == SplitWhitespace(LinesOf(w)[1])[2]

\* the status code of a response: the second word of its first line
StatusCode(resp) == SplitWhitespace(LinesOf(resp)[1])[2]

\* the handler of c returned or was never called, and parsing had succeeded
Served(c) == conn[c].st = "closed" /\ conn[c].phase = "parsed"

\* C4: a successfully parsed GET request whose path is not registered gets
\* status 404 with body "404 - Not Found"; a successfully parsed request
\* whose method is not one of GET, POST, PUT, PATCH, DELETE gets status 405,
\* whatever its path.
ThmC4 ==
    \A c \in Conns :
        Served(c) =>
            /\ (/\ RequestMethod(conn[c].wire) = <<"GET">>
                /\ RequestUri(conn[c].wire) \notin
                      {<<"/">>, <<"/hello">>, <<"/data">>, <<"/entries">>}) =>
                   /\ HasHeaderBlock(conn[c].resp)
                   /\ StatusCode(conn[c].resp) = <<"404">>
                   /\ BodyOf(conn[c].resp) = <<"404", SP, "-", SP, "Not", SP, "Found">>
            /\ RequestMethod(conn[c].wire) \notin
                  {<<"GET">>, <<"POST">>, <<"PUT">>, <<"PATCH">>, <<"DELETE">>} =>
                   /\ HasHeaderBlock(conn[c].resp)
                   /\ StatusCode(conn[c].resp) = <<"405">>

\* a GET of a path of the POST handler got 404, then a HEAD got 405
WitC4 ==
    /\ Served(1) /\ Served(2)
    /\ RequestMethod(conn[1].wire) = <<"GET">>
    /\ RequestUri(conn[1].wire) = <<"/submit">>
    /\ StatusCode(conn[1].resp) = <<"404">>
    /\ RequestMethod(conn[2].wire) = <<"HEAD">>
    /\ StatusCode(conn[2].resp) = <<"405">>

\* the header lines among lines 2..k-1 that are named Content-Length
LengthLines(ls, k) ==
    { j \in 2..(k - 1) : Take(ls[j], FindSeparator(ls[j]) - 1) = ContentLength }

FramedWithLength(resp, ls, k) ==
    /\ HeadEndsAt(ls, k)
    /\ SplitWhitespace(ls[1])[2] \in {<<"200">>, <<"404">>, <<"405">>}
    /\ Cardinality(LengthLines(ls, k)) = 1
    /\ LengthIn(ls, k) = Len(resp) - EndOf(ls, k)

\* C10: every response written by handle_connection (200, 404 or 405)
\* contains exactly one Content-Length header whose value equals the byte
\* length of the response body that follows the blank line.
ThmC10 ==
    \A c \in Conns :
        conn[c].resp # <<>> =>
            FramedWithLength(conn[c].resp, LinesOf(conn[c].resp),
                             FirstNonHeader(LinesOf(conn[c].resp)))

\* a 200 with the entries, whose body has line ends in it, and a 405
WitC10 ==
    /\ conn[1].resp # <<>> /\ conn[2].resp # <<>>
    /\ StatusCode(conn[1].resp) = <<"200">>
    /\ RequestUri(conn[1].wire) = <<"/entries">>
    /\ DeclaredLength(conn[1].resp) > 9
    /\ StatusCode(conn[2].resp) = <<"405">>

----------------------------------------------------------------------------
(* Statements about the endpoints, under SpecStore.  The records of the    *)
(* store are read off the file as it was before the handler of a request   *)
(* was called (before) and when its connection was closed (after).         *)

Records(file) == FromReader(file).val

Ids(chars) == {chars[i].id : i \in 1..Len(chars)}

MaxId(chars) == CHOOSE m \in Ids(chars) : \A n \in Ids(chars) : n <= m

\* c was answered with the status code and the body
Answered(c, code, body) ==
    /\ conn[c].st = "closed"
    /\ HasHeaderBlock(conn[c].resp)
    /\ StatusCode(conn[c].resp) = code
    /\ BodyOf(conn[c].resp) = body

\* c and the connection after it carried the request w, and both are closed
Twice(c, w) ==
    /\ c + 1 \in Conns
    /\ conn[c].wire = w /\ conn[c + 1].wire = w
    /\ conn[c].st = "closed" /\ conn[c + 1].st = "closed"

\* chars with the name of the record of the id replaced
Patch(chars, id, name) ==
    [i \in 1..Len(chars) |->
        IF chars[i].id = id THEN [chars[i] EXCEPT !.name = name] ELSE chars[i]]

\* C5: PATCH /patch_entry_name is idempotent: for every store and every patch
\* {id, name} whose id is present, applying the same patch twice in sequence
\* leaves the store in the same state as applying it once: same number of
\* records, exactly one record with that id, its name equal to the patched
\* name, all other records and fields unchanged.
ThmC5 ==
    \A c \in Conns : \A id \in PatchIds, name \in PatchNames :
        (/\ Twice(c, PatchRequest(id, name))
         /\ id \in Ids(Records(conn[c].before))) =>
            /\ FromReader(conn[c].after).ok /\ FromReader(conn[c + 1].after).ok
            /\ conn[c + 1].before = conn[c].after
            /\ conn[c + 1].after = conn[c].after
            /\ Len(Records(conn[c + 1].after)) = Len(Records(conn[c].before))
            /\ Cardinality({ i \in 1..Len(Records(conn[c + 1].after)) :
                               Records(conn[c + 1].after)[i].id = id }) = 1
            /\ Records(conn[c + 1].after) = Patch(Records(conn[c].before), id, name)
            /\ Records(conn[c].after) = Patch(Records(conn[c].before), id, name)

\* the second record of three was given a new name twice
WitC5 ==
    /\ Twice(1, PatchRequest(2, "\"X\""))
    /\ Len(Records(conn[1].before)) = 3
    /\ Records(conn[1].before)[2].name = "\"B\""
    /\ Records(conn[2].after)[2].name = "\"X\""
    /\ conn[2].fileOps = 3

Without(chars, id) == SelectSeq(chars, LAMBDA ch : ch.id # id)

\* C7: DELETE /delete_entry: for every store and every id present in it, the
\* delete removes exactly the record with that id, keeps all other records in
\* their order and answers "Success!"; repeating the same delete answers body
\* "Error" with HTTP status 200.
ThmC7 ==
    \A c \in Conns : \A id \in DeleteIds :
        (/\ conn[c].wire = DeleteRequest(id)
         /\ conn[c].st = "closed"
         /\ id \in Ids(Records(conn[c].before))) =>
            /\ Answered(c, <<"200">>, <<"Success!">>)
            /\ FromReader(conn[c].after).ok
            /\ Records(conn[c].after) = Without(Records(conn[c].before), id)
            /\ Len(Records(conn[c].after)) = Len(Records(conn[c].before)) - 1
            /\ Twice(c, DeleteRequest(id)) =>
                  /\ Answered(c + 1, <<"200">>, <<"Error">>)
                  /\ conn[c + 1].after = conn[c].after

\* the records 1, 2, 3 became 1, 3 and the second delete of 2 was answered
WitC7 ==
    /\ Twice(1, DeleteRequest(2))
    /\ Ids(Records(conn[1].before)) = {1, 2, 3}
    /\ Ids(Records(conn[2].after)) = {1, 3}
    /\ Answered(1, <<"200">>, <<"Success!">>)
    /\ Answered(2, <<"200">>, <<"Error">>)

----------------------------------------------------------------------------
(* Statements about the pool, under SpecPool                               *)

Executing == {c \in Conns : conn[c].st = "running"}

Completed == {c \in Conns : conn[c].st = "closed" /\ conn[c].pc = "done"}

\* C8: for a pool of worker_count workers and any K >= worker_count submitted
\* tasks that each terminate, all K tasks complete exactly once, and in every
\* reachable state the number of tasks executing simultaneously is at most
\* worker_count (5 connection handlers for the server).
ThmC8 ==
    /\ [](/\ Cardinality(Executing) <= worker_count
          /\ \A c \in Conns : conn[c].runs <= 1
          /\ \A c \in Completed : conn[c].runs = 1)
    /\ <>[](/\ Completed = Conns
            /\ Cardinality(Conns) >= worker_count
            /\ \A c \in Conns : conn[c].runs = 1)

\* every worker is executing a task and one more task waits on the queue
WitC8 ==
    /\ Cardinality(Executing) = worker_count
    /\ queue # <<>>
    /\ Completed = {}
    /\ idle = 0

----------------------------------------------------------------------------
(* Statements about the answers of the mutating routes, under SpecRoute    *)

\* the fields that the endpoint of a mutating route reads from the body,
\* <<>> for any other request
RouteFields(method, uri) ==
    IF method = <<"POST">> /\ uri = <<"/submit">> THEN CharacterFields
    ELSE IF method = <<"PUT">> /\ uri = <<"/put_entry">> THEN CharacterFields
    ELSE IF method = <<"PATCH">> /\ uri = <<"/patch_entry_name">> THEN PatchNameFields
    ELSE IF method = <<"DELETE">> /\ uri = <<"/delete_entry">> THEN DeleteFields
    ELSE <<>>

Diagnostics ==
    { <<"Error">>, <<"Character", SP, "not", SP, "found">>,
      <<"Format", SP, "not", SP, "valid">> }

\* the body of the request of c is malformed for its route, or it names an
\* id that the route looks up in a store that does not hold it
DomainError(method, uri, body, file) ==
    /\ RouteFields(method, uri) # <<>>
    /\ \/ ~FromStr(body, RouteFields(method, uri)).ok
       \/ /\ method # <<"POST">>
          /\ FromReader(file).ok
          /\ FromStr(body, RouteFields(method, uri)).val["\"id\""] \notin
                Ids(Records(file))

\* C11: for every successfully parsed request to a registered mutating route
\* (POST /submit, PUT /put_entry, PATCH /patch_entry_name, DELETE
\* /delete_entry) whose body is malformed for that route or names an id that
\* is not in the store, a response is written with status 200 OK and a
\* diagnostic body ("Error", "Character not found" or "Format not valid"); the
\* status is never 4xx/5xx.
ThmC11 ==
    \A c \in Conns :
        (/\ Served(c)
         /\ DomainError(RequestMethod(conn[c].wire), RequestUri(conn[c].wire),
                        BodyOf(conn[c].wire), conn[c].before)) =>
            /\ HasHeaderBlock(conn[c].resp)
            /\ LinesOf(conn[c].resp)[1] = <<"HTTP/1.1", SP, "200", SP, "OK">> \o CRLF
            /\ BodyOf(conn[c].resp) \in Diagnostics
            /\ conn[c].after = conn[c].before

\* a PUT of a record to the empty list of records was answered "Error"
WitC11 ==
    \E c \in Conns :
        /\ conn[c].wire = Framed("PUT", "/put_entry",
                                  CharacterJson(Char(2, "\"r\"", "\"X\""), FALSE))
        /\ Answered(c, <<"200">>, <<"Error">>)
        /\ FromReader(conn[c].before).ok
        /\ Records(conn[c].before) = <<>>

----------------------------------------------------------------------------
(* Clients in turn whose connections fail, then one that asks for /hello:  *)
(* worker_count requests, each refused by parse_request or a POST of a     *)
(* record, on the store with two records, with an empty list and as an     *)
(* empty file, which from_reader refuses                                   *)

FailingRequests == { <<"GET">> \o CRLF, PostRequest(7, "\"s\"", "\"X\"") }

FailingStores == { FileOf(SeedStore), FileOf(<<>>), <<>> }

HelloRequest == Framed("GET", "/hello", <<>>)

InitFailing ==
    \E reqs \in [1..worker_count -> FailingRequests], file \in FailingStores,
       closes \in BOOLEAN :
        InitWith([c \in 1..(worker_count + 1) |->
                     IF c <= worker_count THEN NewConn(reqs[c], 1, FALSE)
                     ELSE NewConn(HelloRequest, 1, closes)],
                 "sequential", file)

SpecFailing == InitFailing /\ [][Next]_vars /\ WF_vars(Arrivals) /\ FairWork

\* C12: no failure while handling one connection (parse failure, store file
\* missing or unparsable, empty store on POST, failed socket write)
\* terminates the process or removes a worker; after any sequence of failing
\* connections the pool still has worker_count workers and every later
\* well-formed connection is served.
CexC12 ==
    /\ [](worker_count - dead = worker_count)
    /\ <>Answered(worker_count + 1, <<"200">>, <<"Hello,", SP, "world!">>)

----------------------------------------------------------------------------
(* Two clients at once, each with a request that rewrites the store of two *)
(* records: the handlers run on two workers and their steps on the file    *)
(* (from_reader, File::create, to_writer_pretty) interleave freely         *)

RaceRequests ==
    { PostRequest(7, "\"s\"", "\"X\""), PostRequest(7, "\"r\"", "\"A\""),
      DeleteRequest(2) }

InitRace ==
    \E w1 \in RaceRequests, w2 \in RaceRequests, closes \in BOOLEAN :
        InitWith(<<NewConn(w1, 1, closes), NewConn(w2, 1, FALSE)>>,
                 "concurrent", FileOf(SeedStore))

SpecRace == InitRace /\ [][Next]_vars

\* c was answered that its change of the store was made
Succeeded(c) == Answered(c, <<"200">>, <<"Success!">>) /\ conn[c].fileOps = 3

\* the record that a POST of the request w adds, with the id
Added(w, id) ==
    [Character(FromStr(BodyOf(w), CharacterFields).val) EXCEPT !.id = id]

IsPost(w) == RequestMethod(w) = <<"POST">>

\* C13: mutating handlers read the whole collection and later rewrite it with
\* no lock, so two mutating requests run by different workers can interleave
\* read-all and write-all: when both requests were answered success, the
\* store is what one of the two handlers wrote from the records it had read,
\* which either holds the change of the other (the handlers ran one after the
\* other) or does not (a lost update: two POSTs leave one new record).
ThmC13 ==
    (Succeeded(1) /\ Succeeded(2)) =>
        /\ store \in {FileOf(conn[1].chars), FileOf(conn[2].chars)}
        /\ \A c \in Conns :
              /\ conn[c].before \in {FileOf(SeedStore), FileOf(conn[3 - c].chars)}
              /\ IsPost(conn[c].wire) =>
                    conn[c].chars =
                       Append(Records(conn[c].before),
                              Added(conn[c].wire, MaxId(Records(conn[c].before)) + 1))
        /\ (IsPost(conn[1].wire) /\ IsPost(conn[2].wire)) =>
              \/ \E c \in Conns :
                    Records(store) = Append(SeedStore, Added(conn[c].wire, 3))
              \/ \E c \in Conns :
                    Records(store) =
                       SeedStore \o <<Added(conn[c].wire, 3), Added(conn[3 - c].wire, 4)>>

\* two POSTs of different records were both answered "Success!", both had
\* read the two records of the store, and the store holds three records: the
\* record of the first connection is not among them
WitC13 ==
    /\ Succeeded(1) /\ Succeeded(2)
    /\ IsPost(conn[1].wire) /\ IsPost(conn[2].wire)
    /\ conn[1].wire # conn[2].wire
    /\ conn[1].before = FileOf(SeedStore) /\ conn[2].before = FileOf(SeedStore)
    /\ Records(store) = Append(SeedStore, Added(conn[2].wire, 3))
    /\ \A i \in 1..Len(Records(store)) :
          Records(store)[i].name # Added(conn[1].wire, 3).name

----------------------------------------------------------------------------
(* Statements about the listener loop, under SpecPool                      *)

\* the number of tasks on the queue that own the stream of c
Queued(c) == Cardinality({i \in 1..Len(queue) : queue[i] = c})

\* the workers that are running a task
Busy == worker_count - idle - dead

\* C14: for each accepted connection exactly one task is submitted to the
\* pool; that task is executed by exactly one worker at most once, and no two
\* workers (nor the listener) ever operate on the same connection's socket at
\* the same time: a connection that was accepted is on the queue once until a
\* worker takes it, then off the queue for good and called once, and there
\* are as many workers running a task as connections being handled.
ThmC14 ==
    /\ \A c \in Conns :
          /\ Queued(c) = IF conn[c].st = "queued" THEN 1 ELSE 0
          /\ conn[c].runs = IF conn[c].st \in {"running", "closed"} THEN 1 ELSE 0
          /\ conn[c].st \in {"new", "backlog", "queued"} =>
                conn[c].pc = "none" /\ conn[c].consumed = 0 /\ conn[c].resp = <<>>
    /\ Busy = Cardinality(Executing)
    /\ Busy <= worker_count

\* one connection was handled to its end, others are being handled, each by
\* a worker of its own, and the task of another waits on the queue
WitC14 ==
    /\ \E c \in Conns : conn[c].st = "closed" /\ conn[c].resp # <<>>
    /\ Cardinality(Executing) >= 2
    /\ Busy = Cardinality(Executing)
    /\ \E c \in Conns : Queued(c) = 1

----------------------------------------------------------------------------
(* Two clients in turn with PUT /put_entry: a record with an id at every   *)
(* position of the store or at none, or a body that is no record, then the *)
(* same or the list of the entries                                         *)

PutIds == {1, 2, 3, 4}

PutRequests ==
    { PutRequest(id, "\"r\"", "\"X\"") : id \in PutIds }
    \cup { PutRequest(2, "\"s\"", "\"B\""), Framed("PUT", "/put_entry", IdBody(2)) }

InitPut ==
    \E w1 \in PutRequests, w2 \in PutRequests \cup {EntriesRequest},
       closes \in BOOLEAN, chars \in StoreLists :
        InitWith(<<NewConn(w1, 1, closes), NewConn(w2, 1, FALSE)>>,
                 "sequential", FileOf(chars))

SpecPut == InitPut /\ [][Next]_vars

\* chars with the record ch in the place of the record that has its id
PutInto(chars, ch) ==
    [i \in 1..Len(chars) |-> IF chars[i].id = ch.id THEN ch ELSE chars[i]]

\* C15: PUT /put_entry: for every store and every valid record whose id is
\* present, the record with that id is replaced by the request's record at
\* the same position, the number of records and all other records are
\* unchanged, and the answer is "Success!"; when the id is absent the answer
\* is "Error".
ThmC15 ==
    \A c \in Conns : \A id \in PutIds, rank \in {"\"r\"", "\"s\""},
                        name \in {"\"X\"", "\"B\""} :
        (/\ conn[c].wire = PutRequest(id, rank, name)
         /\ conn[c].st = "closed") =>
            /\ FromReader(conn[c].before).ok /\ FromReader(conn[c].after).ok
            /\ IF id \in Ids(Records(conn[c].before))
               THEN /\ Answered(c, <<"200">>, <<"Success!">>)
                    /\ Len(Records(conn[c].after)) = Len(Records(conn[c].before))
                    /\ \A i \in 1..Len(Records(conn[c].before)) :
                          Records(conn[c].after)[i] =
                             IF Records(conn[c].before)[i].id = id
                             THEN Char(id, rank, name)
                             ELSE Records(conn[c].before)[i]
                    /\ Records(conn[c].after) =
                          PutInto(Records(conn[c].before), Char(id, rank, name))
               ELSE /\ Answered(c, <<"200">>, <<"Error">>)
                    /\ conn[c].after = conn[c].before
                    /\ conn[c].fileOps = 1

\* the second of three records was replaced, then a record with an id that
\* no record has was refused
WitC15 ==
    /\ conn[1].wire = PutRequest(2, "\"r\"", "\"X\"")
    /\ Answered(1, <<"200">>, <<"Success!">>)
    /\ Len(Records(conn[1].before)) = 3
    /\ Records(conn[1].before)[2] = Char(2, "\"s\"", "\"B\"")
    /\ Records(conn[1].after)[2] = Char(2, "\"r\"", "\"X\"")
    /\ conn[2].wire = PutRequest(4, "\"r\"", "\"X\"")
    /\ Answered(2, <<"200">>, <<"Error">>)

----------------------------------------------------------------------------
(* Two clients in turn with requests that differ at most in their Cookie   *)
(* header: none, the one of test_cookie_management, a cookie whose value   *)
(* is a date (expired or not, by the clock), two cookies, one without '='  *)

CookieValues ==
    { <<>>,
      <<"session_id", "=", "123456">>,
      <<"a", "=">> \o FormatDate(0),
      <<"a", "=", "1", ";", SP, "b", "=", "2">>,
      <<"flag">> }

CookieTargets ==
    { <<"GET", "/data", <<>>>>, <<"GET", "/entries", <<>>>>,
      <<"GET", "/missing", <<>>>>, <<"HEAD", "/data", <<>>>>,
      <<"DELETE", "/delete_entry", IdBody(3)>>,
      <<"DELETE", "/delete_entry", IdBody(2)>> }

\* the request of test_cookie_management, with a body where one is given
CookieRequest(target, cookie) ==
    Request(target[1], target[2],
            <<HostHeader>>
            \o (IF cookie = <<>> THEN <<>> ELSE <<Header("Cookie", cookie)>>)
            \o (IF target[3] = <<>> THEN <<>> ELSE <<WithLength(target[3])>>),
            target[3])

InitCookie ==
    \E target \in CookieTargets, c1 \in CookieValues, c2 \in CookieValues,
       closes \in BOOLEAN :
        InitWith(<<NewConn(CookieRequest(target, c1), 1, closes),
                   NewConn(CookieRequest(target, c2), 1, FALSE)>>,
                 "sequential", FileOf(SeedStore))

SpecCookie == InitCookie /\ [][Next]_vars

IsSetCookie(line) == Take(line, FindSeparator(line) - 1) = <<"Set-Cookie">>

\* the Set-Cookie header lines of a response with the lines ls, in order
SetCookieLines(ls, k) == SelectSeq(SubSeq(ls, 2, k - 1), IsSetCookie)

OldCookieMark ==
    <<"Set-Cookie", COLON, SP, "old_cookie", "=", "won't_be_set", ";", SP, "Path=/",
      ";", SP, "HttpOnly", ";", SP, "Expires=">>

NewCookieMark ==
    <<"Set-Cookie", COLON, SP, "new_cookie", "=", "will_be_set_but_won't_last_long",
      ";", SP, "Path=/", ";", SP, "HttpOnly", ";", SP, "Expires=">>

Dates == { FormatDate(t) : t \in 0..(MaxTime + NewCookieSecs) }

\* a header line up to its Expires=, without the date
Undated(line) == Take(line, IndexOf(line, "Expires="))

TwoCookies(sc) ==
    /\ Len(sc) = 2
    /\ \E d1 \in Dates, d2 \in Dates :
          sc = <<OldCookieMark \o d1 \o CRLF, NewCookieMark \o d2 \o CRLF>>

\* the request w without the Cookie lines of its header block
WithoutCookie(w) ==
    Concat(SelectSeq(LinesOf(w),
                     LAMBDA line : Take(line, FindSeparator(line) - 1) # <<"Cookie">>))

\* the responses r1 and r2, with the lines l1 and l2 and the empty lines at
\* k1 and k2, have the same status line, Set-Cookie headers and body
SameAnswer(r1, l1, k1, r2, l2, k2) ==
    /\ l1[1] = l2[1]
    /\ Drop(r1, EndOf(l1, k1)) = Drop(r2, EndOf(l2, k2))
    /\ Len(SetCookieLines(l1, k1)) = Len(SetCookieLines(l2, k2))
    /\ \A i \in 1..Len(SetCookieLines(l1, k1)) :
          Undated(SetCookieLines(l1, k1)[i]) = Undated(SetCookieLines(l2, k2)[i])

\* C16: every response written by handle_connection carries exactly two
\* Set-Cookie headers, old_cookie=won't_be_set; Path=/; HttpOnly; Expires=<date>
\* then new_cookie=will_be_set_but_won't_last_long; Path=/; HttpOnly;
\* Expires=<date>, and these headers, the status line and the body are the
\* same for two requests that differ only in their Cookie header (the dates
\* being those of the clock: with the same reading of the clock the two
\* responses are the same byte for byte).
ThmC16 ==
    /\ \A c \in Conns :
          conn[c].resp # <<>> =>
             /\ HasHeaderBlock(conn[c].resp)
             /\ TwoCookies(SetCookieLines(LinesOf(conn[c].resp),
                                          FirstNonHeader(LinesOf(conn[c].resp))))
    /\ \A c, d \in Conns :
          (/\ conn[c].resp # <<>> /\ conn[d].resp # <<>>
           /\ WithoutCookie(conn[c].wire) = WithoutCookie(conn[d].wire)
           /\ conn[c].before = conn[d].before) =>
              /\ SameAnswer(conn[c].resp, LinesOf(conn[c].resp),
                            FirstNonHeader(LinesOf(conn[c].resp)),
                            conn[d].resp, LinesOf(conn[d].resp),
                            FirstNonHeader(LinesOf(conn[d].resp)))
              /\ conn[c].cookies = conn[d].cookies => conn[c].resp = conn[d].resp

\* the request of test_cookie_management and the same request with a cookie
\* that had expired were answered: the first had a valid cookie and the
\* second none, and the two responses are the same bytes
WitC16 ==
    /\ conn[1].resp # <<>> /\ conn[2].resp # <<>>
    /\ conn[1].wire = CookieRequest(<<"GET", "/data", <<>>>>,
                                    <<"session_id", "=", "123456">>)
    /\ conn[2].wire = CookieRequest(<<"GET", "/data", <<>>>>, <<"a", "=">> \o FormatDate(0))
    /\ DOMAIN conn[1].valid = {<<"session_id">>}
    /\ conn[2].valid = EmptyMap
    /\ conn[1].resp = conn[2].resp
    /\ StatusCode(conn[1].resp) = <<"200">>

----------------------------------------------------------------------------
(* Statements about the course of a connection, under SpecRoute            *)

\* where the connection r is on its way through handle_connection
Stage(r) ==
    IF r.st \in {"new", "backlog"} THEN "Unaccepted"
    ELSE IF r.st = "queued" THEN "Accepted"
    ELSE IF r.st = "closed" THEN "Closed"
    ELSE IF r.pc = "parse" THEN "Parsing"
    ELSE IF r.pc = "route" THEN "Routing"
    ELSE IF r.pc \in {"create", "write"} THEN "StoreIO"
    ELSE "Writing"

StageSteps ==
    { <<"Unaccepted", "Accepted">>, <<"Accepted", "Parsing">>,
      <<"Parsing", "Routing">>, <<"Parsing", "Closed">>,
      <<"Routing", "StoreIO">>, <<"Routing", "Writing">>,
      <<"StoreIO", "Writing">>, <<"Writing", "Closed">> }

\* a step of the connection from r to s
StageStep(r, s) ==
    /\ Stage(r) # Stage(s) => <<Stage(r), Stage(s)>> \in StageSteps
    /\ Stage(r) = "Closed" => s = r
    /\ s.resp # r.resp => r.resp = <<>> /\ Stage(r) = "Writing" /\ Stage(s) = "Closed"

\* C17: every connection moves only along Accepted -> Parsing -> Routing ->
\* (Store I/O) -> Writing -> Closed or Accepted -> Parsing -> Closed; Closed
\* is terminal, at most one response is written per connection, Writing is
\* reached exactly when parsing succeeded, and a handler failure (domain
\* error) still leads to Writing.
CexC17 ==
    /\ [][\A c \in Conns : StageStep(conn[c], conn'[c])]_vars
    /\ [](\A c \in Conns :
            /\ Stage(conn[c]) = "Writing" => conn[c].phase = "parsed"
            /\ Stage(conn[c]) = "Closed" =>
                  (conn[c].resp # <<>> <=> conn[c].phase = "parsed"))

----------------------------------------------------------------------------
(* The load of test_concurrent_requests: worker_count to PoolTasks clients *)
(* at once, each sending GET /hello in one write; the first shuts down its *)
(* sending side.  The clock has reached MaxTime, so that every response  *)
(* carries the same dates.  Every thread and every client that can take a  *)
(* step is scheduled in the end.                                           *)

LoadRequest ==
    Request("GET", "/hello",
            <<Header("Host", <<"127.0.0.1">>), Header("Connection", <<"close">>)>>,
            <<>>)

InitLoad ==
    \E k \in worker_count..PoolTasks :
        /\ conn = [c \in 1..k |-> NewConn(LoadRequest, 1, c = 1)]
        /\ queue = <<>>
        /\ idle = worker_count
        /\ dead = 0
        /\ store = FileOf(SeedStore)
        /\ now = MaxTime
        /\ clients = "concurrent"

\* the steps of handle_connection for a request that no endpoint serves
Serve == \E c \in Conns : ReaderFill(c) \/ Route(c) \/ Respond(c)

\* Next without the steps on the file, which GET /hello never takes
NextLoad == Arrivals \/ Serve

SpecLoad == InitLoad /\ [][NextLoad]_vars /\ WF_vars(Arrivals) /\ FairWork

Hello(c) == Answered(c, <<"200">>, <<"Hello,", SP, "world!">>)

\* C18: for any number of concurrent connections (equal to or larger than
\* the 5 workers) that each send a complete well-formed GET /hello request,
\* under fair scheduling every connection eventually receives a 200 response
\* with body "Hello, world!" and is closed; no submitted connection is
\* dropped or left queued forever.
ThmC18 ==
    /\ [](\A c \in Conns : conn[c].st = "closed" => Hello(c))
    /\ [](dead = 0 /\ Cardinality(Conns) >= worker_count)
    /\ <>[](\A c \in Conns : Hello(c) /\ Queued(c) = 0)

\* more connections than workers: every worker is handling one, the task of
\* the last is on the queue, and none has been answered
WitC18 ==
    /\ Cardinality(Conns) > worker_count
    /\ \A c \in Conns : conn[c].wire = LoadRequest /\ conn[c].resp = <<>>
    /\ idle = 0
    /\ Queued(Cardinality(Conns)) = 1

----------------------------------------------------------------------------
(* Statements about the waits of a worker, under SpecParse                 *)

\* the worker of r waits in a read of the socket: nothing has arrived and
\* the client has not shut down its sending side
Waiting(r) ==
    r.st = "running" /\ r.pc = "parse" /\ r.arrived = <<>> /\ ~r.shut

\* the header block of the request of r was read, its Content-Length is the
\* length of the body that the client is sending, and the client has not yet
\* sent all of it
BodyOutstanding(r) ==
    /\ r.avail >= 0
    /\ r.sent < Len(r.wire)
    /\ WellFormed(r.wire)
    /\ DeclaredLength(r.wire) > 0

\* C19, as the specification states it: a connection whose client has sent
\* the headers with Content-Length N but has not yet delivered all N body
\* bytes keeps its worker blocked in the body read until the bytes arrive.
CexC19 ==
    \A c \in Conns :
        BodyOutstanding(conn[c]) =>
            conn[c].st = "running" /\ conn[c].pc = "parse" /\ conn[c].phase = "body"

\* C19, amended: there is no timeout on the reads of the request line and of
\* the header lines: a worker that waits for bytes of a connection stays
\* with it, without a response, until bytes arrive or the client shuts down,
\* with no bound, so a client that never completes its header block keeps a
\* worker occupied forever; the body read never waits: a connection whose
\* client has sent the headers with Content-Length N but has not yet
\* delivered all N body bytes is closed at once with
\* ContentLengthExceedsData and no response, and its worker is free again.
ThmC19 ==
    /\ [][\A c \in Conns :
            Waiting(conn[c]) =>
               /\ conn'[c].st = "running" /\ conn'[c].pc = "parse"
               /\ conn'[c].resp = <<>>
               /\ idle' = idle]_vars
    /\ [](\A c \in Conns :
            (conn[c].st = "running" /\ conn[c].pc = "parse") =>
               /\ conn[c].phase \in {"reqline", "headers"}
               /\ conn[c].avail = -1
               /\ idle = worker_count - 1)
    /\ [](\A c \in Conns :
            BodyOutstanding(conn[c]) =>
               /\ conn[c].st = "closed"
               /\ conn[c].err = "ContentLengthExceedsData"
               /\ conn[c].resp = <<>>
               /\ idle = worker_count)

\* the client has sent all it sends, a request line and a header line but no
\* empty line, and keeps the connection open: the worker waits in read_line
WitC19 ==
    \E c \in Conns :
        /\ Waiting(conn[c])
        /\ conn[c].sent = Len(conn[c].wire)
        /\ ~conn[c].closes
        /\ conn[c].phase = "headers"
        /\ DOMAIN conn[c].headers # {}
        /\ idle = worker_count - 1

----------------------------------------------------------------------------
(* Statements about the Content-Type gate, under SpecParse                 *)

BodyErrors ==
    {"InvalidContentLength", "ContentLengthExceedsData", "BodyLengthMismatch",
     "ReadBodyError"}

\* parse_request of c has returned, and not before its Content-Type gate
PassedBody(c) ==
    HasReturned(c) /\ conn[c].avail >= 0 /\ conn[c].err \notin BodyErrors

\* the value of the last Content-Type header line of a request with the lines
\* ls, whose header block ends with the empty line k or, when k is 0, with
\* the stream; <<"absent">> when there is none
TypeIn(ls, k) == HeaderValue(ls, IF k = 0 THEN Len(ls) ELSE k - 1, ContentType)

GateType(w) == TypeIn(LinesOf(w), FirstNonHeader(LinesOf(w)))

\* C20: when a Content-Type header is present, the request is accepted only
\* if its value is exactly text/plain (any body) or exactly application/json
\* with a body that parses as JSON; application/json with a non-JSON body
\* (including the empty body of a request without Content-Length) and every
\* other Content-Type value fail with InvalidRequestLineFormat; when the
\* header is absent no body check is made.
ThmC20 ==
    \A c \in Conns :
        PassedBody(c) =>
            IF \/ GateType(conn[c].wire) \in {<<"absent">>, <<"text/plain">>}
               \/ /\ GateType(conn[c].wire) = <<"application/json">>
                  /\ IsJson(conn[c].body)
            THEN conn[c].phase = "parsed" /\ conn[c].err = "none"
            ELSE /\ conn[c].phase = "failed"
                 /\ conn[c].err = "InvalidRequestLineFormat"
                 /\ conn[c].st = "closed"
                 /\ conn[c].resp = <<>>

\* a request with Content-Type: application/json and no Content-Length, so
\* with the empty body, was refused at the gate
WitC20 ==
    \E c \in Conns :
        /\ PassedBody(c)
        /\ GateType(conn[c].wire) = <<"application/json">>
        /\ ContentLength \notin DOMAIN conn[c].headers
        /\ conn[c].body = <<>>
        /\ conn[c].err = "InvalidRequestLineFormat"

----------------------------------------------------------------------------
(* Statements about the presence of a body, under SpecParse                *)

\* the last line of the header block of a request with the lines ls, whose
\* block ends before the empty line k or, when k is 0, with the stream
LastHeader(ls, k) == IF k = 0 THEN Len(ls) ELSE k - 1

\* the names of the header lines of the request w, as the client spelled them
HeaderNames(w) ==
    { Take(LinesOf(w)[j], FindSeparator(LinesOf(w)[j]) - 1) :
        j \in 2..LastHeader(LinesOf(w), FirstNonHeader(LinesOf(w))) }

\* the bytes of the request w after its header block
AfterHead(w) ==
    Drop(w, EndOf(LinesOf(w),
                  IF FirstNonHeader(LinesOf(w)) = 0 THEN Len(LinesOf(w))
                  ELSE FirstNonHeader(LinesOf(w))))

\* the number that the last Content-Length line of the request w gives
LengthOf(w) ==
    ParseUsize(HeaderValue(LinesOf(w),
                           LastHeader(LinesOf(w), FirstNonHeader(LinesOf(w))),
                           ContentLength))

\* C21: body presence in parse_request: the returned body is empty whenever
\* the header mapping has no key spelled exactly Content-Length (header
\* names are compared case-sensitively, so content-length: N does not cause
\* a body read), and when the key is present and parsing succeeds the body
\* length equals the parsed value.
ThmC21 ==
    \A c \in Conns :
        /\ ContentLength \notin DOMAIN conn[c].headers =>
              /\ conn[c].body = <<>>
              /\ conn[c].raw = <<>>
              /\ conn[c].phase # "body"
              /\ conn[c].err \notin BodyErrors
        /\ conn[c].phase = "parsed" =>
              /\ DOMAIN conn[c].headers = HeaderNames(conn[c].wire)
              /\ IF ContentLength \in DOMAIN conn[c].headers
                 THEN /\ ParseUsize(conn[c].headers[ContentLength]) # -1
                      /\ Len(conn[c].body) = ParseUsize(conn[c].headers[ContentLength])
                      /\ Len(conn[c].body) = LengthOf(conn[c].wire)
                      /\ conn[c].body = Take(AfterHead(conn[c].wire), Len(conn[c].body))
                 ELSE /\ conn[c].body = <<>>
                      /\ conn[c].consumed = Len(conn[c].wire) - Len(AfterHead(conn[c].wire))

\* a request with the header content-length: 2 and two bytes after the empty
\* line, all of them sent, was parsed: the mapping has the key as it was
\* spelled, the body is empty and the two bytes were not read
WitC21 ==
    \E c \in Conns :
        /\ conn[c].phase = "parsed"
        /\ DOMAIN conn[c].headers = {<<"content-length">>}
        /\ conn[c].headers[<<"content-length">>] = <<"2">>
        /\ conn[c].sent = Len(conn[c].wire)
        /\ Len(AfterHead(conn[c].wire)) = 2
        /\ conn[c].body = <<>>
        /\ conn[c].consumed = Len(conn[c].wire) - 2

----------------------------------------------------------------------------
(* One client and the route table: every method with every path, as it is  *)
(* registered, with a query string, with a segment more, in another case,  *)
(* and with every kind of body, on the store of two records and on the     *)
(* empty list                                                              *)

TableUris ==
    { <<uri>> : uri \in RouteUris }
    \cup { <<"/hello", "?", "x=1">>, <<"/entries", "?", "limit=1">>,
           <<"/submit", "?", "x=1">>, <<"/delete_entry", "?", "id=2">>,
           <<"/", "?">>, <<"/put_entry", "/">>, <<"/patch_entry_name", "/", "2">> }

\* a request as send_request writes it, the target being a path of one
\* symbol or more
TableRequest(method, uri, body) ==
    <<method, SP>> \o uri \o <<SP, "HTTP/1.1">> \o CRLF
    \o (IF body = <<>> THEN <<>> ELSE WithLength(body)) \o CRLF \o body

InitTable ==
    \E method \in RouteMethods, uri \in TableUris, body \in RouteBodies,
       closes \in BOOLEAN, chars \in {SeedStore, <<>>} :
        InitWith(<<NewConn(TableRequest(method, uri, body), 1, closes)>>,
                 "sequential", FileOf(chars))

SpecTable == InitTable /\ [][Next]_vars

\* the route table of the specification
SevenRoutes ==
    { <<"GET", <<"/">>>>, <<"GET", <<"/hello">>>>, <<"GET", <<"/entries">>>>,
      <<"POST", <<"/submit">>>>, <<"PUT", <<"/put_entry">>>>,
      <<"PATCH", <<"/patch_entry_name">>>>, <<"DELETE", <<"/delete_entry">>>> }

EightRoutes == SevenRoutes \cup { <<"GET", <<"/data">>>> }

RecognizedMethods == {"GET", "POST", "PUT", "PATCH", "DELETE"}

\* the method and the path of the request w, as the client wrote them
RouteOf(w) == <<RequestMethod(w)[1], RequestUri(w)>>

\* the request of c was parsed and its handler returned, so it was answered
Replied(c) == Served(c) /\ conn[c].pc = "done"

\* C22, as the specification states it: a request gets a response other than
\* 404/405 exactly when its (method, path) is one of the seven pairs of the
\* route table, matched as exact strings; every other path under a
\* recognized method gets 404.
CexC22 ==
    \A c \in Conns :
        Replied(c) =>
            /\ StatusCode(conn[c].resp) \notin {<<"404">>, <<"405">>}
                  <=> RouteOf(conn[c].wire) \in SevenRoutes
            /\ (/\ RouteOf(conn[c].wire)[1] \in RecognizedMethods
                /\ RouteOf(conn[c].wire) \notin SevenRoutes) =>
                  StatusCode(conn[c].resp) = <<"404">>

\* C22, amended: a request that is answered gets a response other than
\* 404/405 (a 200) exactly when its (method, path) is one of eight pairs
\* matched as exact strings: the seven of the route table (GET /, GET /hello,
\* GET /entries, POST /submit, PUT /put_entry, PATCH /patch_entry_name,
\* DELETE /delete_entry) and GET /data; every other path under a recognized
\* method (including a registered path with a query string, or a path
\* registered only under another method) gets 404 with the body
\* "404 - Not Found", and every other method gets 405.
ThmC22 ==
    \A c \in Conns :
        Replied(c) =>
            /\ HasHeaderBlock(conn[c].resp)
            /\ StatusCode(conn[c].resp) \notin {<<"404">>, <<"405">>}
                  <=> RouteOf(conn[c].wire) \in EightRoutes
            /\ StatusCode(conn[c].resp) =
                  IF RouteOf(conn[c].wire) \in EightRoutes THEN <<"200">>
                  ELSE IF RouteOf(conn[c].wire)[1] \in RecognizedMethods THEN <<"404">>
                  ELSE <<"405">>
            /\ StatusCode(conn[c].resp) = <<"404">> =>
                  /\ BodyOf(conn[c].resp) = <<"404", SP, "-", SP, "Not", SP, "Found">>
                  /\ conn[c].fileOps = 0

\* GET /hello?x=1 was answered 404
WitC22 ==
    \E c \in Conns :
        /\ conn[c].wire = TableRequest("GET", <<"/hello", "?", "x=1">>, <<>>)
        /\ RequestUri(conn[c].wire) = <<"/hello", "?", "x=1">>
        /\ Answered(c, <<"404">>, <<"404", SP, "-", SP, "Not", SP, "Found">>)
        /\ conn[c].handler = "handle_get"

----------------------------------------------------------------------------
(* Three clients in turn with requests that change the store: POST, PUT,   *)
(* PATCH and DELETE, with ids that the store holds or not and with a body  *)
(* that is no record, on the stores of one to three records in ascending   *)
(* order of id                                                             *)

SeqRequests ==
    { PostRequest(1, "\"s\"", "\"X\""), Framed("POST", "/submit", <<"{">>),
      PutRequest(2, "\"r\"", "\"X\""),
      PatchRequest(2, "\"X\""), PatchRequest(4, "\"X\""),
      DeleteRequest(1), DeleteRequest(2), DeleteRequest(3) }

SeqStores == StoreLists \ {<<>>}

InitSeq ==
    \E w1 \in SeqRequests, w2 \in SeqRequests, w3 \in SeqRequests,
       chars \in SeqStores :
        InitWith(<<NewConn(w1, 1, FALSE), NewConn(w2, 1, FALSE), NewConn(w3, 1, TRUE)>>,
                 "sequential", FileOf(chars))

SpecSeq == InitSeq /\ [][Next]_vars

\* the ids are pairwise distinct and strictly ascending
Ascending(chars) == \A i \in 1..(Len(chars) - 1) : chars[i].id < chars[i + 1].id

Answers == Diagnostics \cup {<<"Success!">>, <<"Success">>}

\* C23: starting from a non-empty store whose ids are pairwise distinct and
\* strictly ascending, after any sequence of POST, PUT, PATCH and DELETE
\* requests executed one at a time (no overlap) the ids in the store are
\* still pairwise distinct and strictly ascending, and no operation fails
\* other than with a diagnostic body.
CexC23 ==
    \A c \in Conns :
        conn[c].st = "closed" =>
            /\ conn[c].pc = "done"
            /\ HasHeaderBlock(conn[c].resp)
            /\ BodyOf(conn[c].resp) \in Answers
            /\ FromReader(conn[c].after).ok
            /\ Ascending(Records(conn[c].after))

\* the only record of the store was deleted, and the POST that followed
\* made its worker panic: the connection was closed without a response
WitC23 ==
    \E c \in Conns :
        /\ c + 1 \in Conns
        /\ conn[c].wire = DeleteRequest(1)
        /\ Answered(c, <<"200">>, <<"Success!">>)
        /\ conn[c].after = FileOf(<<>>)
        /\ conn[c + 1].wire = PostRequest(1, "\"s\"", "\"X\"")
        /\ conn[c + 1].pc = "panicked"
        /\ conn[c + 1].resp = <<>>
        /\ dead = 1

----------------------------------------------------------------------------
(* Statements about what changes the store, under SpecRoute                *)

MutatingRoutes == EightRoutes \ { <<"GET", <<uri>>>> : uri \in RouteUris }

\* the handler of c is between its File::create and the end of its write
\* of the records, on its way to the answer that the change was made
Rewriting(c) ==
    /\ conn[c].st = "running"
    /\ conn[c].pc \in {"create", "write"}
    /\ RouteOf(conn[c].wire) \in MutatingRoutes
    /\ conn[c].status = SERVER_RESPONSE_OK
    /\ conn[c].text \in {<<"Success!">>, <<"Success">>}

\* C24: a mutating request that answers a diagnostic body ("Error",
\* "Character not found", "Format not valid"), a GET request, and any
\* request answered 404 or 405 leave the persisted store exactly as it was;
\* the store file is rewritten only on the success path of POST, PUT, PATCH
\* and DELETE.
ThmC24 ==
    /\ [](\A c \in Conns :
            (/\ Replied(c)
             /\ \/ BodyOf(conn[c].resp) \in Diagnostics
                \/ RequestMethod(conn[c].wire) = <<"GET">>
                \/ StatusCode(conn[c].resp) \in {<<"404">>, <<"405">>}) =>
                /\ conn[c].after = conn[c].before
                /\ conn[c].fileOps <= 1)
    /\ [](\A c \in Conns :
            (Replied(c) /\ conn[c].after # conn[c].before) =>
                /\ RouteOf(conn[c].wire) \in MutatingRoutes
                /\ StatusCode(conn[c].resp) = <<"200">>
                /\ BodyOf(conn[c].resp) \in {<<"Success!">>, <<"Success">>}
                /\ conn[c].fileOps = 3)
    /\ [][store' # store => \E c \in Conns : Rewriting(c) /\ conn'[c] # conn[c]]_vars

\* a PATCH of a record that the store does not hold was answered "Character
\* not found", then a GET of a path that is not registered was answered 404:
\* the store is as it was before the two
WitC24 ==
    /\ conn[1].wire = Framed("PATCH", "/patch_entry_name", PatchBody(2, "\"X\""))
    /\ Answered(1, <<"200">>, <<"Character", SP, "not", SP, "found">>)
    /\ conn[1].fileOps = 1
    /\ Answered(2, <<"404">>, <<"404", SP, "-", SP, "Not", SP, "Found">>)
    /\ conn[1].before = FileOf(<<>>)
    /\ conn[2].after = conn[1].before
    /\ store = conn[1].before

====
